---- MODULE Spec2Model ----
(***************************************************************************)
(* A model of hyou's windowed cell cache and commit engine                 *)
(* (hyou/worksheet.py, hyou/view.py, hyou/cell.py, hyou/cell_format.py).   *)
(*                                                                         *)
(* One Worksheet (a WorksheetView over [0,rows) x [0,cols)) is driven by a *)
(* client that gets cells, reads and writes them through the references it *)
(* holds, commits, refreshes and resizes.  The remote spreadsheet is an    *)
(* environment: every network call either fails or answers with one of a   *)
(* few server snapshots.                                                   *)
(***************************************************************************)
EXTENDS Integers, Sequences, FiniteSets, TLC

(***************************************************************************)
(* Bounds of the model.                                                    *)
(***************************************************************************)
\* operations in one run of the client
MaxSteps == 4

\* the server snapshots a range fetch can answer with
Versions == {0, 1}
\* the worksheet: one row of two columns, which a resize can cut to one
RowIdx == {0}
ColIdx == {0, 1}
Coords == RowIdx \X ColIdx
FullSize == << 1, 2 >>
Sizes == {<< 1, 1 >>, FullSize}

(***************************************************************************)
(* Values.  A typed (Python side) value is [kind, x, s]; a wire            *)
(* ExtendedValue is [kind, x] with kind one of the API's variants, or      *)
(* absent.  Strings are interned as naturals.  A date is the number x of   *)
(* days from the serial epoch to it, a time the number s of seconds since  *)
(* midnight, a datetime both.  The payload of a numberValue is held in     *)
(* units of 1/SecondsPerDay: an integer n is the payload                   *)
(* n * SecondsPerDay, and a payload that is no multiple of SecondsPerDay   *)
(* is a float.                                                             *)
(***************************************************************************)
NoneV == [kind |-> "none", x |-> 0, s |-> 0]
StrV(n) == [kind |-> "str", x |-> n, s |-> 0]
BoolV(n) == [kind |-> "bool", x |-> n, s |-> 0]
IntV(n) == [kind |-> "int", x |-> n, s |-> 0]
NumV(n) == [kind |-> "number", x |-> n, s |-> 0]
FormulaV(n) == [kind |-> "formula", x |-> n, s |-> 0]
ErrorV(n) == [kind |-> "error", x |-> n, s |-> 0]
DateV(n) == [kind |-> "date", x |-> n, s |-> 0]
TimeV(n) == [kind |-> "time", x |-> 0, s |-> n]
DateTimeV(n, m) == [kind |-> "datetime", x |-> n, s |-> m]
FloatV(n) == [kind |-> "float", x |-> n, s |-> 0]
ObjectV(n) == [kind |-> "object", x |-> n, s |-> 0]

NoWire == [kind |-> "absent", x |-> 0]
Wire(k, n) == [kind |-> k, x |-> n]

\* formattedValue strings are interned as naturals; '' is NoText
NoText == 0

(***************************************************************************)
(* Formats.  A format dictionary is flattened to a function from the data  *)
(* paths it holds (of the declared properties) to their encoded values;    *)
(* NoneF is the value of a key that holds None.                            *)
(***************************************************************************)
Absent == "absent"
NoneF == "None"

\* CellFormat's declared properties, in declaration (_index) order
PropertyNames ==
    << "number_format_type", "number_format_pattern", "background_color",
       "foreground_color", "font_family", "font_size", "bold", "italic",
       "strikethrough", "underline" >>

DataPath(name) ==
    CASE name = "number_format_type" -> "numberFormat.type"
      [] name = "number_format_pattern" -> "numberFormat.pattern"
      [] name = "background_color" -> "backgroundColor"
      [] name = "foreground_color" -> "textFormat.foregroundColor"
      [] name = "font_family" -> "textFormat.fontFamily"
      [] name = "font_size" -> "textFormat.fontSize"
      [] name = "bold" -> "textFormat.bold"
      [] name = "italic" -> "textFormat.italic"
      [] name = "strikethrough" -> "textFormat.strikethrough"
      [] name = "underline" -> "textFormat.underline"

Paths == {DataPath(PropertyNames[i]) : i \in 1..Len(PropertyNames)}
NumberFormatPaths == {"numberFormat.type", "numberFormat.pattern"}

\* CellFormatProperty.__init__: the value a read falls back to
DefaultValue(name) ==
    CASE name = "number_format_type" -> "NUMBER_FORMAT_TYPE_UNSPECIFIED"
      [] name = "number_format_pattern" -> NoneF
      [] name = "background_color" -> "WHITE"
      [] name = "foreground_color" -> "BLACK"
      [] name = "font_family" -> ""
      [] name = "font_size" -> "0"
      [] OTHER -> "False"

\* CellFormatProperty.__init__: default_value given, or allow_null
ExplicitDefaultValue(name) ==
    name \in {"number_format_type", "number_format_pattern",
              "background_color", "foreground_color"}

PropertyType(name) ==
    CASE name = "number_format_type" -> "NumberFormatType"
      [] name = "number_format_pattern" -> "str"
      [] name = "background_color" -> "Color"
      [] name = "foreground_color" -> "Color"
      [] name = "font_family" -> "str"
      [] name = "font_size" -> "int"
      [] OTHER -> "bool"

EmptyFormat == << >>

\* dict.get(path): Absent when the path is not in the dictionary
Get(format_data, path) ==
    IF path \in DOMAIN format_data THEN format_data[path] ELSE Absent

\* the dictionary with path set to value
Put(format_data, path, value) ==
    [q \in DOMAIN format_data \cup {path} |->
        IF q = path THEN value ELSE format_data[q]]

\* CellFormatProperty._get_value_from_data: None when the path is missing
\* or holds None
GetValueFromData(format_data, name) ==
    IF Get(format_data, DataPath(name)) = NoneF THEN Absent
    ELSE Get(format_data, DataPath(name))

\* CellFormatProperty._set_value_to_data
SetValueToData(format_data, name, new_value) ==
    Put(format_data, DataPath(name), new_value)

\* a merge in which the default layer wins over the local one
MergeFormatsDefaultFirst(local_format, default_format) ==
    [p \in {q \in Paths :
               \/ Get(local_format, q) \notin {Absent, NoneF}
               \/ Get(default_format, q) \notin {Absent, NoneF}} |->
        IF Get(default_format, p) \notin {Absent, NoneF}
        THEN default_format[p]
        ELSE local_format[p]]

\* CellFormat._merge_formats: local if not None, else default if not None
MergeFormats(local_format, default_format) ==
    [p \in {q \in Paths :
               \/ Get(local_format, q) \notin {Absent, NoneF}
               \/ Get(default_format, q) \notin {Absent, NoneF}} |->
        IF Get(local_format, p) \notin {Absent, NoneF}
        THEN local_format[p]
        ELSE default_format[p]]

\* CellFormat.__init__ / CellFormat._reset_data
ResetFormat(local_format, default_format, user_entered) ==
    [user_entered |-> user_entered,
     default |-> default_format,
     current |-> MergeFormats(local_format, default_format),
     pending |-> EmptyFormat]

\* CellFormatProperty.__get__ once the cell is known to be valid
PropertyValue(format, name) ==
    LET format_data == GetValueFromData(format.current, name)
    IN  IF format_data = Absent THEN DefaultValue(name) ELSE format_data


NumberFormatTypes ==
    {"NUMBER_FORMAT_TYPE_UNSPECIFIED", "TEXT", "NUMBER", "PERCENT",
     "CURRENCY", "DATE", "TIME", "DATE_TIME", "SCIENTIFIC"}

(***************************************************************************)
(* The value codec of Cell.                                                *)
(***************************************************************************)
\* the length of a day, the unit of a serial number, in seconds
SecondsPerDay == 86400

\* util.datetime_to_serial: the days, with the fraction of the day, from
\* the serial epoch to the datetime of day days and second of the day
\* seconds
DatetimeToSerial(days, seconds) == days * SecondsPerDay + seconds

\* util.serial_to_datetime: the datetime at serial days from the serial
\* epoch
SerialToDatetime(serial) ==
    DateTimeV(serial \div SecondsPerDay, serial % SecondsPerDay)

\* the number a numberValue carries, as json and Python hold it
PlainNumber(serial) ==
    IF serial % SecondsPerDay = 0 THEN IntV(serial \div SecondsPerDay)
    ELSE NumV(serial)

\* a decoder that takes every number for a plain one
ParseExtendedValuePlain(extended_value, format) ==
    IF extended_value.kind \in {"absent", "empty"} THEN NoneV
    ELSE IF extended_value.kind = "stringValue" THEN StrV(extended_value.x)
    ELSE IF extended_value.kind = "boolValue" THEN BoolV(extended_value.x)
    ELSE IF extended_value.kind = "formulaValue"
        THEN FormulaV(extended_value.x)
    ELSE IF extended_value.kind = "errorValue" THEN ErrorV(extended_value.x)
    ELSE PlainNumber(extended_value.x)

\* Cell._parse_extended_value
ParseExtendedValue(extended_value, format) ==
    IF extended_value.kind \in {"absent", "empty"} THEN NoneV
    ELSE IF extended_value.kind = "stringValue" THEN StrV(extended_value.x)
    ELSE IF extended_value.kind = "boolValue" THEN BoolV(extended_value.x)
    ELSE IF extended_value.kind = "formulaValue"
        THEN FormulaV(extended_value.x)
    ELSE IF extended_value.kind = "errorValue" THEN ErrorV(extended_value.x)
    ELSE LET number_format_type == PropertyValue(format, "number_format_type")
         IN  IF number_format_type = "DATE_TIME"
                 THEN SerialToDatetime(extended_value.x)
             ELSE IF number_format_type = "DATE"
                 THEN DateV(SerialToDatetime(extended_value.x).x)
             ELSE IF number_format_type = "TIME"
                 THEN TimeV(SerialToDatetime(extended_value.x).s)
             ELSE PlainNumber(extended_value.x)

\* Cell._unparse_extended_value: (extended value, inferred number format
\* type), or ValueError
UnparseExtendedValue(value) ==
    CASE value.kind = "none" ->
            [res |-> "ok", wire |-> Wire("empty", 0), type |-> Absent]
      [] value.kind = "str" ->
            [res |-> "ok", wire |-> Wire("stringValue", value.x),
             type |-> Absent]
      [] value.kind = "bool" ->
            [res |-> "ok", wire |-> Wire("boolValue", value.x),
             type |-> Absent]
      [] value.kind = "formula" ->
            [res |-> "ok", wire |-> Wire("formulaValue", value.x),
             type |-> Absent]
      [] value.kind = "error" ->
            [res |-> "ValueError", wire |-> NoWire, type |-> Absent]
      [] value.kind = "int" ->
            [res |-> "ok",
             wire |-> Wire("numberValue", value.x * SecondsPerDay),
             type |-> Absent]
      [] value.kind = "datetime" ->
            [res |-> "ok",
             wire |-> Wire("numberValue",
                           DatetimeToSerial(value.x, value.s)),
             type |-> "DATE_TIME"]
      [] value.kind = "date" ->
            [res |-> "ok",
             wire |-> Wire("numberValue", DatetimeToSerial(value.x, 0)),
             type |-> "DATE"]
      [] value.kind = "time" ->
            [res |-> "ok",
             wire |-> Wire("numberValue", DatetimeToSerial(0, value.s)),
             type |-> "TIME"]
      [] OTHER ->
            [res |-> "ValueError", wire |-> NoWire, type |-> Absent]

(***************************************************************************)
(* Cells.                                                                  *)
(***************************************************************************)
\* a cellEntry of a range-fetch response; every sub-object is optional
EmptyCellData ==
    [userEnteredValue |-> NoWire, effectiveValue |-> NoWire,
     formattedValue |-> NoText,
     userEnteredFormat |-> EmptyFormat, effectiveFormat |-> EmptyFormat]

\* a reset that leaves the dirty flags as they are
ResetDataKeepsFlags(cell, cell_data, default_format) ==
    LET uf == ResetFormat(cell_data.userEnteredFormat, default_format, TRUE)
        ef == ResetFormat(cell_data.effectiveFormat, default_format, FALSE)
    IN  [cell EXCEPT
            !.user_entered_format = uf,
            !.effective_format = ef,
            !.user_entered_value =
                ParseExtendedValue(cell_data.userEnteredValue, uf),
            !.effective_value =
                ParseExtendedValue(cell_data.effectiveValue, ef),
            !.formatted_value = cell_data.formattedValue]

\* Cell._reset_data: the cell keeps its identity, row and column
ResetData(cell, cell_data, default_format) ==
    LET uf == ResetFormat(cell_data.userEnteredFormat, default_format, TRUE)
        ef == ResetFormat(cell_data.effectiveFormat, default_format, FALSE)
    IN  [cell EXCEPT
            !.user_entered_format = uf,
            !.effective_format = ef,
            !.user_entered_value =
                ParseExtendedValue(cell_data.userEnteredValue, uf),
            !.effective_value =
                ParseExtendedValue(cell_data.effectiveValue, ef),
            !.formatted_value = cell_data.formattedValue,
            !.value_dirty = FALSE,
            !.format_dirty = FALSE]

\* Cell.__init__: a new object for (row, col); id tells the Cell objects
\* constructed for one location apart
NewCell(id, row, col, cell_data, default_format) ==
    LET uf == ResetFormat(cell_data.userEnteredFormat, default_format, TRUE)
        ef == ResetFormat(cell_data.effectiveFormat, default_format, FALSE)
    IN  [id |-> id, row |-> row, col |-> col,
         user_entered_format |-> uf,
         effective_format |-> ef,
         user_entered_value |->
             ParseExtendedValue(cell_data.userEnteredValue, uf),
         effective_value |->
             ParseExtendedValue(cell_data.effectiveValue, ef),
         formatted_value |-> cell_data.formattedValue,
         value_dirty |-> FALSE,
         format_dirty |-> FALSE]

Dirty(cell) == cell.value_dirty \/ cell.format_dirty

\* the field-mask paths of a format update, in sorted (fields.sort()) order
SortedMaskPaths ==
    << "backgroundColor", "numberFormat", "textFormat.bold",
       "textFormat.fontFamily", "textFormat.fontSize",
       "textFormat.foregroundColor", "textFormat.italic",
       "textFormat.strikethrough", "textFormat.underline" >>

\* the fields of _get_pending_update: the paths of the properties the
\* data holds a value for
PendingFields(format_data) ==
    {p \in Paths : Get(format_data, p) \notin {Absent, NoneF}}

\* the patch of _get_pending_update: a copy of the pending data in which a
\* numberFormat that holds something has both type and pattern
PendingPatch(pending) ==
    LET with_type ==
            IF "numberFormat.type" \in DOMAIN pending THEN pending
            ELSE Put(pending, "numberFormat.type",
                     "NUMBER_FORMAT_TYPE_UNSPECIFIED")
    IN  IF \E p \in NumberFormatPaths : p \in DOMAIN pending
        THEN IF "numberFormat.pattern" \in DOMAIN with_type
             THEN with_type
             ELSE Put(with_type, "numberFormat.pattern", "")
        ELSE pending

\* a _get_pending_update that leaves the paths of numberFormat's fields in
\* the mask
GetPendingUpdateLeafPaths(format) ==
    [format |-> PendingPatch(format.pending),
     fields |->
        SelectSeq(<< "backgroundColor", "numberFormat.pattern",
                     "numberFormat.type" >> \o Tail(Tail(SortedMaskPaths)),
                  LAMBDA f : f \in PendingFields(format.pending)),
     pending |-> format.pending]

\* a _get_pending_update that takes the fields from the current data
GetPendingUpdateFromCurrent(format) ==
    [format |-> PendingPatch(format.pending),
     fields |->
        SelectSeq(SortedMaskPaths,
                  LAMBDA f :
                      f \in (PendingFields(format.current)
                                 \ NumberFormatPaths)
                             \cup (IF \E p \in NumberFormatPaths :
                                          p \in DOMAIN format.pending
                                   THEN {"numberFormat"} ELSE {})),
     pending |-> format.pending]

\* CellFormat._get_pending_update: the patch and the sorted field mask it
\* returns, and the pending data it leaves (it works on a deep copy)
GetPendingUpdate(format) ==
    [format |-> PendingPatch(format.pending),
     fields |->
        SelectSeq(SortedMaskPaths,
                  LAMBDA f :
                      f \in (PendingFields(format.pending)
                                 \ NumberFormatPaths)
                             \cup (IF \E p \in NumberFormatPaths :
                                          p \in DOMAIN format.pending
                                   THEN {"numberFormat"} ELSE {})),
     pending |-> format.pending]

\* the worksheet's sheetId
SheetKey == "sheet"

NoFragment == [updateCells |-> FALSE]

\* the fields of the request of a Cell
RequestFields(cell, update) ==
    (IF cell.value_dirty
     THEN << [top |-> "userEnteredValue", path |-> ""] >>
     ELSE << >>)
        \o (IF cell.format_dirty
            THEN [i \in 1..Len(update.fields) |->
                     [top |-> "userEnteredFormat",
                      path |-> update.fields[i]]]
            ELSE << >>)

\* a _build_update_request that sends the user-entered value of every dirty
\* cell
BuildUpdateRequestAlwaysValue(cell) ==
    IF ~(cell.value_dirty \/ cell.format_dirty) THEN NoFragment
    ELSE [updateCells |-> TRUE,
          sheetId |-> SheetKey,
          rowIndex |-> cell.row,
          columnIndex |-> cell.col,
          keys |-> {"userEnteredValue"} \cup
                   (IF cell.format_dirty THEN {"userEnteredFormat"} ELSE {}),
          userEnteredValue |->
              UnparseExtendedValue(cell.user_entered_value).wire,
          userEnteredFormat |->
              IF cell.format_dirty
              THEN GetPendingUpdate(cell.user_entered_format).format
              ELSE EmptyFormat,
          fields |->
              RequestFields([cell EXCEPT !.value_dirty = TRUE],
                            GetPendingUpdate(cell.user_entered_format))]

\* Cell._build_update_request: None (NoFragment) for a clean cell; keys are
\* the keys of value_data
BuildUpdateRequest(cell) ==
    IF ~(cell.value_dirty \/ cell.format_dirty) THEN NoFragment
    ELSE [updateCells |-> TRUE,
          sheetId |-> SheetKey,
          rowIndex |-> cell.row,
          columnIndex |-> cell.col,
          keys |-> (IF cell.value_dirty THEN {"userEnteredValue"} ELSE {})
                   \cup
                   (IF cell.format_dirty THEN {"userEnteredFormat"} ELSE {}),
          userEnteredValue |->
              IF cell.value_dirty
              THEN UnparseExtendedValue(cell.user_entered_value).wire
              ELSE NoWire,
          userEnteredFormat |->
              IF cell.format_dirty
              THEN GetPendingUpdate(cell.user_entered_format).format
              ELSE EmptyFormat,
          fields |->
              RequestFields(cell,
                            GetPendingUpdate(cell.user_entered_format))]

\* the Cell after _build_update_request: the pending data are what
\* _get_pending_update leaves, when it is called
AfterBuildUpdateRequest(cell) ==
    IF cell.format_dirty
    THEN [cell EXCEPT
             !.user_entered_format.pending =
                 GetPendingUpdate(cell.user_entered_format).pending]
    ELSE cell


(***************************************************************************)
(* The remote spreadsheet: what a range fetch can answer.  The sheet is    *)
(* sparse: an even snapshot holds the first two cells of the first row, an *)
(* odd one the first cell of the first two rows; every other cell of a     *)
(* fetched range is omitted from the payload, trailing rows included.      *)
(***************************************************************************)
RowLen(v, row) ==
    IF v % 2 = 0 THEN (IF row = 0 THEN 2 ELSE 0)
    ELSE (IF row < 2 THEN 1 ELSE 0)

DefaultFormatOf(v) ==
    IF v % 2 = 1
    THEN Put(Put(EmptyFormat, "textFormat.fontSize", "10"),
             "textFormat.bold", "True")
    ELSE Put(EmptyFormat, "textFormat.fontSize", "10")

CellDataOf(v, row, col) ==
    LET t == (row + col + v) % 3
    IN  IF t = 0
        THEN [EmptyCellData EXCEPT
                 !.userEnteredValue = Wire("stringValue", v),
                 !.effectiveValue = Wire("stringValue", v),
                 !.formattedValue = v + 1]
        ELSE IF t = 1
        THEN [EmptyCellData EXCEPT
                 !.userEnteredValue = Wire("formulaValue", v),
                 !.effectiveValue = Wire("numberValue", v + 1),
                 !.formattedValue = v + 2]
        ELSE [EmptyCellData EXCEPT
                 !.userEnteredValue = Wire("numberValue", v),
                 !.effectiveValue = Wire("numberValue", v),
                 !.formattedValue = v + 1,
                 !.userEnteredFormat =
                     Put(EmptyFormat, "numberFormat.type", "DATE"),
                 !.effectiveFormat =
                     Put(EmptyFormat, "numberFormat.type", "DATE")]

Min(a, b) == IF a < b THEN a ELSE b
Max(a, b) == IF a > b THEN a ELSE b

\* the response to a fetch of the view's range: rows and cells are
\* relative to the range's first row and column, trailing empty cells and
\* rows are omitted
Response(view, v) ==
    LET n_values(row) ==
            Max(0, Min(view.end_col, RowLen(v, row)) - view.start_col)
        n_rows ==
            Cardinality({row \in view.start_row..(view.end_row - 1) :
                            n_values(row) > 0})
    IN  [defaultFormat |-> DefaultFormatOf(v),
         rowData |->
            [i \in 1..n_rows |->
                [j \in 1..n_values(view.start_row + i - 1) |->
                    CellDataOf(v, view.start_row + i - 1,
                               view.start_col + j - 1)]]]

\* the outcome of one network call: it fails, or snapshot v answers
NetFail == [ok |-> FALSE, v |-> 0]
NetOk(v) == [ok |-> TRUE, v |-> v]
Nets == {NetFail} \cup {NetOk(v) : v \in Versions}

\* a network call made by an operation
Call(method, ok, requests) ==
    [method |-> method, ok |-> ok, requests |-> requests]

(***************************************************************************)
(* WorksheetView (worksheet.py), the same code as View (view.py).          *)
(* Every operation returns the view after it, the number of Cell objects   *)
(* made so far for each location, how it ended (res) and the network calls *)
(* it made.                                                                *)
(***************************************************************************)
\* the value of _default_format after refresh(): None
NoDefaultFormat == [p \in {"None"} |-> NoneF]

Result(view, made, res, calls) ==
    [view |-> view, made |-> made, res |-> res, calls |-> calls]

\* WorksheetView.__init__
NewView(start_row, end_row, start_col, end_col) ==
    [start_row |-> start_row, end_row |-> end_row,
     start_col |-> start_col, end_col |-> end_col,
     fetched |-> FALSE,
     default_format |-> NoDefaultFormat,
     cell_map |-> << >>]

InWindow(view, row, col) ==
    /\ view.start_row <= row /\ row < view.end_row
    /\ view.start_col <= col /\ col < view.end_col

\* a refresh that leaves the view fetched
RefreshKeepsFetched(view) ==
    [view EXCEPT !.default_format = NoDefaultFormat]

\* WorksheetView.refresh
Refresh(view) ==
    [view EXCEPT !.default_format = NoDefaultFormat, !.fetched = FALSE]

\* WorksheetView._reset_size
ResetSize(view, start_row, end_row, start_col, end_col) ==
    [view EXCEPT !.start_row = start_row, !.end_row = end_row,
                 !.start_col = start_col, !.end_col = end_col]

\* the (row, col, cell_data) of a response in the order the two loops of
\* _ensure_fetched visit them
RECURSIVE FlattenRows(_, _, _, _)
FlattenRows(rowData, i, start_row, start_col) ==
    IF i > Len(rowData) THEN << >>
    ELSE [j \in 1..Len(rowData[i]) |->
             [row |-> start_row + i - 1, col |-> start_col + j - 1,
              cell_data |-> rowData[i][j]]]
         \o FlattenRows(rowData, i + 1, start_row, start_col)

\* a loop body that constructs a new Cell for every location of the payload
RECURSIVE StoreCellsReplaces(_, _, _, _)
StoreCellsReplaces(cell_map, made, items, default_format) ==
    IF items = << >> THEN [cell_map |-> cell_map, made |-> made]
    ELSE LET it == Head(items)
             location == << it.row, it.col >>
             new == NewCell(made[location] + 1, it.row, it.col,
                            it.cell_data, default_format)
         IN  StoreCellsReplaces(
                 IF location \in DOMAIN cell_map
                 THEN [cell_map EXCEPT ![location] = new]
                 ELSE cell_map @@ (location :> new),
                 [made EXCEPT ![location] = @ + 1], Tail(items),
                 default_format)

\* the loop body of _ensure_fetched: a new Cell for a location not in the
\* map, a reset in place for one that is
RECURSIVE StoreCells(_, _, _, _)
StoreCells(cell_map, made, items, default_format) ==
    IF items = << >> THEN [cell_map |-> cell_map, made |-> made]
    ELSE LET it == Head(items)
             location == << it.row, it.col >>
         IN  IF location \notin DOMAIN cell_map
             THEN StoreCells(
                      cell_map @@
                          (location :> NewCell(made[location] + 1, it.row,
                                               it.col, it.cell_data,
                                               default_format)),
                      [made EXCEPT ![location] = @ + 1], Tail(items),
                      default_format)
             ELSE StoreCells(
                      [cell_map EXCEPT
                          ![location] =
                              ResetData(@, it.cell_data, default_format)],
                      made, Tail(items), default_format)

\* an _ensure_fetched that does not look at the fetched flag
EnsureFetchedAlways(view, made, net) ==
    IF ~net.ok
    THEN Result(view, made, "TransportError",
                << Call("get", FALSE, << >>) >>)
    ELSE LET response == Response(view, net.v)
             default_format == response.defaultFormat
             items == FlattenRows(response.rowData, 1,
                                  view.start_row, view.start_col)
             cleared_locations ==
                 DOMAIN view.cell_map \
                     {<< items[i].row, items[i].col >> : i \in 1..Len(items)}
             stored == StoreCells(view.cell_map, made, items,
                                  default_format)
             cell_map ==
                 [location \in DOMAIN stored.cell_map |->
                     IF location \in cleared_locations
                     THEN ResetData(stored.cell_map[location], EmptyCellData,
                                    default_format)
                     ELSE stored.cell_map[location]]
         IN  Result([view EXCEPT !.fetched = TRUE,
                                 !.default_format = default_format,
                                 !.cell_map = cell_map],
                    stored.made, "ok", << Call("get", TRUE, << >>) >>)

\* an _ensure_fetched that leaves the cached Cells the payload omits alone
EnsureFetchedKeepsCleared(view, made, net) ==
    IF view.fetched THEN Result(view, made, "ok", << >>)
    ELSE IF ~net.ok
    THEN Result(view, made, "TransportError",
                << Call("get", FALSE, << >>) >>)
    ELSE LET response == Response(view, net.v)
             default_format == response.defaultFormat
             items == FlattenRows(response.rowData, 1,
                                  view.start_row, view.start_col)
             stored == StoreCells(view.cell_map, made, items,
                                  default_format)
         IN  Result([view EXCEPT !.fetched = TRUE,
                                 !.default_format = default_format,
                                 !.cell_map = stored.cell_map],
                    stored.made, "ok", << Call("get", TRUE, << >>) >>)

\* an _ensure_fetched that takes the view for fetched once its fetch failed
EnsureFetchedSwallows(view, made, net) ==
    IF ~net.ok /\ ~view.fetched
    THEN Result([view EXCEPT !.fetched = TRUE], made, "TransportError",
                << Call("get", FALSE, << >>) >>)
    ELSE IF view.fetched THEN Result(view, made, "ok", << >>)
    ELSE EnsureFetchedAlways(view, made, net)

\* an _ensure_fetched that evicts the cached Cells the payload omits
EnsureFetchedEvicts(view, made, net) ==
    IF view.fetched THEN Result(view, made, "ok", << >>)
    ELSE IF ~net.ok
    THEN Result(view, made, "TransportError",
                << Call("get", FALSE, << >>) >>)
    ELSE LET response == Response(view, net.v)
             default_format == response.defaultFormat
             items == FlattenRows(response.rowData, 1,
                                  view.start_row, view.start_col)
             stored == StoreCells(view.cell_map, made, items,
                                  default_format)
             kept == {<< items[i].row, items[i].col >> : i \in 1..Len(items)}
         IN  Result([view EXCEPT !.fetched = TRUE,
                                 !.default_format = default_format,
                                 !.cell_map =
                                     [location \in kept |->
                                         stored.cell_map[location]]],
                    stored.made, "ok", << Call("get", TRUE, << >>) >>)

\* WorksheetView._ensure_fetched with the outcome net of its _fetch
EnsureFetched(view, made, net) ==
    IF view.fetched THEN Result(view, made, "ok", << >>)
    ELSE IF ~net.ok
    THEN Result(view, made, "TransportError",
                << Call("get", FALSE, << >>) >>)
    ELSE LET response == Response(view, net.v)
             default_format == response.defaultFormat
             items == FlattenRows(response.rowData, 1,
                                  view.start_row, view.start_col)
             cleared_locations ==
                 DOMAIN view.cell_map \
                     {<< items[i].row, items[i].col >> : i \in 1..Len(items)}
             stored == StoreCells(view.cell_map, made, items,
                                  default_format)
             cell_map ==
                 [location \in DOMAIN stored.cell_map |->
                     IF location \in cleared_locations
                     THEN ResetData(stored.cell_map[location], EmptyCellData,
                                    default_format)
                     ELSE stored.cell_map[location]]
         IN  Result([view EXCEPT !.fetched = TRUE,
                                 !.default_format = default_format,
                                 !.cell_map = cell_map],
                    stored.made, "ok", << Call("get", TRUE, << >>) >>)

\* a _get_cell that fetches before it checks the bounds
GetCellFetchFirst(view, made, row, col, net) ==
    LET f == EnsureFetched(view, made, net)
        location == << row, col >>
    IN  IF f.res # "ok" THEN f
        ELSE IF ~InWindow(f.view, row, col)
        THEN Result(f.view, f.made, "IndexError", f.calls)
        ELSE IF location \notin DOMAIN f.view.cell_map
        THEN Result([f.view EXCEPT
                        !.cell_map = @ @@
                            (location :>
                                NewCell(f.made[location] + 1, row, col,
                                        EmptyCellData,
                                        f.view.default_format))],
                    [f.made EXCEPT ![location] = @ + 1], "ok", f.calls)
        ELSE f

\* WorksheetView._get_cell
GetCell(view, made, row, col, net) ==
    IF ~(view.start_row <= row /\ row < view.end_row)
    THEN Result(view, made, "IndexError", << >>)
    ELSE IF ~(view.start_col <= col /\ col < view.end_col)
    THEN Result(view, made, "IndexError", << >>)
    ELSE LET f == EnsureFetched(view, made, net)
             location == << row, col >>
         IN  IF f.res # "ok" THEN f
             ELSE IF location \notin DOMAIN f.view.cell_map
             THEN Result([f.view EXCEPT
                             !.cell_map = @ @@
                                 (location :>
                                     NewCell(f.made[location] + 1, row, col,
                                             EmptyCellData,
                                             f.view.default_format))],
                         [f.made EXCEPT ![location] = @ + 1], "ok",
                         f.calls)
             ELSE f

(***************************************************************************)
(* Operations on a Cell the client holds a reference to; location is the   *)
(* key of that Cell in its view's cell map.                                *)
(***************************************************************************)
\* an _ensure_fetched_and_valid that does not look at the window
EnsureFetchedOnly(view, made, location, net) ==
    EnsureFetched(view, made, net)

\* the test of Cell._ensure_fetched_and_valid once _ensure_fetched has
\* returned f
CheckValid(f, location) ==
    IF f.res # "ok" THEN f
    ELSE IF ~InWindow(f.view, f.view.cell_map[location].row,
                      f.view.cell_map[location].col)
    THEN Result(f.view, f.made, "HyouRuntimeError", f.calls)
    ELSE f

\* Cell._ensure_fetched_and_valid
EnsureFetchedAndValid(view, made, location, net) ==
    CheckValid(EnsureFetched(view, made, net), location)

\* what a read returns: a value, a display string or a format's data
NoReturn == [value |-> NoneV, text |-> NoText, format |-> EmptyFormat]

Read(r, ret) == [view |-> r.view, made |-> r.made, res |-> r.res,
                 calls |-> r.calls, ret |-> ret]

CellProperties ==
    {"user_entered_value", "effective_value", "formatted_value",
     "user_entered_format", "effective_format"}

\* the getters without the test of the dirty flags
ReadCellUnchecked(view, made, location, property, net) ==
    LET f == EnsureFetchedAndValid(view, made, location, net)
        cell == f.view.cell_map[location]
    IN  IF f.res # "ok" THEN Read(f, NoReturn)
        ELSE IF property = "user_entered_value"
        THEN Read(f, [NoReturn EXCEPT !.value = cell.user_entered_value])
        ELSE IF property = "user_entered_format"
        THEN Read(f, [NoReturn EXCEPT
                         !.format = cell.user_entered_format.current])
        ELSE IF property = "effective_value"
        THEN Read(f, [NoReturn EXCEPT !.value = cell.effective_value])
        ELSE IF property = "formatted_value"
        THEN Read(f, [NoReturn EXCEPT !.text = cell.formatted_value])
        ELSE Read(f, [NoReturn EXCEPT
                         !.format = cell.effective_format.current])

\* a property getter of Cell once _ensure_fetched_and_valid has returned f
Getter(f, location, property) ==
    LET cell == f.view.cell_map[location]
    IN  IF f.res # "ok" THEN Read(f, NoReturn)
        ELSE IF property = "user_entered_value"
        THEN Read(f, [NoReturn EXCEPT !.value = cell.user_entered_value])
        ELSE IF property = "user_entered_format"
        THEN Read(f, [NoReturn EXCEPT
                         !.format = cell.user_entered_format.current])
        ELSE IF cell.value_dirty \/ cell.format_dirty
        THEN Read(Result(f.view, f.made, "UncommittedCellPropertyError",
                         f.calls), NoReturn)
        ELSE IF property = "effective_value"
        THEN Read(f, [NoReturn EXCEPT !.value = cell.effective_value])
        ELSE IF property = "formatted_value"
        THEN Read(f, [NoReturn EXCEPT !.text = cell.formatted_value])
        ELSE Read(f, [NoReturn EXCEPT
                         !.format = cell.effective_format.current])

\* the property getters of Cell
ReadCell(view, made, location, property, net) ==
    Getter(EnsureFetchedAndValid(view, made, location, net), location,
           property)

\* util.check_type and the coercions of CellFormatProperty.__set__: the
\* encoded value to store, or the error the assignment ends with
CheckedFormatValue(name, new_value) ==
    IF new_value.type = "NoneType"
    THEN IF ~ExplicitDefaultValue(name)
         THEN [res |-> "ValueError", data |-> Absent]
         ELSE [res |-> "ok", data |-> DefaultValue(name)]
    ELSE IF PropertyType(name) = "NumberFormatType"
              /\ new_value.type = "str"
    THEN IF new_value.v \in NumberFormatTypes
         THEN [res |-> "ok", data |-> new_value.v]
         ELSE [res |-> "ValueError", data |-> Absent]
    ELSE IF PropertyType(name) = "Color" /\ new_value.type = "tuple"
    THEN [res |-> "ok", data |-> new_value.v]
    ELSE IF PropertyType(name) = "float" /\ new_value.type = "int"
    THEN [res |-> "ok", data |-> new_value.v]
    ELSE IF new_value.type = PropertyType(name)
    THEN [res |-> "ok", data |-> new_value.v]
    ELSE [res |-> "TypeError", data |-> Absent]

FormatOf(cell, layer) ==
    IF layer = "user_entered" THEN cell.user_entered_format
    ELSE cell.effective_format

\* CellFormatProperty.__get__ on a format object the client holds
GetFormatProperty(view, made, location, layer, name, net) ==
    LET f == EnsureFetchedAndValid(view, made, location, net)
    IN  IF f.res # "ok" THEN Read(f, NoReturn)
        ELSE Read(f, [NoReturn EXCEPT
                         !.format =
                             Put(EmptyFormat, DataPath(name),
                                 PropertyValue(
                                     FormatOf(f.view.cell_map[location],
                                              layer), name))])

\* a __set__ that writes the value to the current data only
StoreFormatValueCurrentOnly(f, location, name, data) ==
    IF f.res # "ok" THEN f
    ELSE Result(
            [f.view EXCEPT
                !.cell_map[location].user_entered_format.current =
                    SetValueToData(@, name, data),
                !.cell_map[location].format_dirty = TRUE],
            f.made, "ok", f.calls)

\* a __set__ that leaves the format-dirty flag as it is
StoreFormatValueKeepsFlag(f, location, name, data) ==
    IF f.res # "ok" THEN f
    ELSE Result(
            [f.view EXCEPT
                !.cell_map[location].user_entered_format.current =
                    SetValueToData(@, name, data),
                !.cell_map[location].user_entered_format.pending =
                    SetValueToData(@, name, data)],
            f.made, "ok", f.calls)

\* the end of CellFormatProperty.__set__ once _ensure_fetched_and_valid has
\* returned f: the value goes to the current and the pending data
StoreFormatValue(f, location, name, data) ==
    IF f.res # "ok" THEN f
    ELSE Result(
            [f.view EXCEPT
                !.cell_map[location].user_entered_format.current =
                    SetValueToData(@, name, data),
                !.cell_map[location].user_entered_format.pending =
                    SetValueToData(@, name, data),
                !.cell_map[location].format_dirty = TRUE],
            f.made, "ok", f.calls)

\* a __set__ that does not test whether the format is the user-entered one
SetFormatUnguarded(view, made, location, layer, name, new_value, net) ==
    LET checked == CheckedFormatValue(name, new_value)
    IN  IF checked.res # "ok"
        THEN Result(view, made, checked.res, << >>)
        ELSE StoreFormatValue(
                 EnsureFetchedAndValid(view, made, location, net),
                 location, name, checked.data)

\* CellFormatProperty.__set__ on a format object the client holds
SetFormatProperty(view, made, location, layer, name, new_value, net) ==
    LET checked == CheckedFormatValue(name, new_value)
    IN  IF ~FormatOf(view.cell_map[location], layer).user_entered
        THEN Result(view, made, "AttributeError", << >>)
        ELSE IF checked.res # "ok"
        THEN Result(view, made, checked.res, << >>)
        ELSE StoreFormatValue(
                 EnsureFetchedAndValid(view, made, location, net),
                 location, name, checked.data)

\* an _assign_value that does not set the number format type it infers
AssignIgnoresType(f, location, new_value, net) ==
    IF f.res # "ok" THEN f
    ELSE IF UnparseExtendedValue(new_value).res # "ok"
    THEN Result(f.view, f.made, UnparseExtendedValue(new_value).res,
                f.calls)
    ELSE Result(
            [f.view EXCEPT
                !.cell_map[location].user_entered_value = new_value,
                !.cell_map[location].value_dirty = TRUE],
            f.made, "ok", f.calls)

\* an _assign_value that stores the value before it encodes it
AssignStoresFirst(f, location, new_value, net) ==
    LET unparsed == UnparseExtendedValue(new_value)
        typed ==
            IF unparsed.type # Absent
            THEN SetFormatProperty(
                     f.view, f.made, location, "user_entered",
                     "number_format_type",
                     [type |-> "NumberFormatType", v |-> unparsed.type], net)
            ELSE f
    IN  IF f.res # "ok" THEN f
        ELSE Result(
                [typed.view EXCEPT
                    !.cell_map[location].user_entered_value = new_value,
                    !.cell_map[location].value_dirty = TRUE],
                typed.made, unparsed.res, f.calls)

\* Cell._assign_value once _ensure_fetched_and_valid has returned f
Assign(f, location, new_value, net) ==
    LET unparsed == UnparseExtendedValue(new_value)
        typed ==
            IF unparsed.type # Absent
            THEN SetFormatProperty(
                     f.view, f.made, location, "user_entered",
                     "number_format_type",
                     [type |-> "NumberFormatType", v |-> unparsed.type], net)
            ELSE f
    IN  IF f.res # "ok" THEN f
        ELSE IF unparsed.res # "ok"
        THEN Result(f.view, f.made, unparsed.res, f.calls)
        ELSE Result(
                [typed.view EXCEPT
                    !.cell_map[location].user_entered_value = new_value,
                    !.cell_map[location].value_dirty = TRUE],
                typed.made, "ok", f.calls)

\* Cell._assign_value (the setter of user_entered_value)
AssignValue(view, made, location, new_value, net) ==
    Assign(EnsureFetchedAndValid(view, made, location, net), location,
           new_value, net)

\* CellFormat.clear on the user-entered format of the Cell at location,
\* reached through the getter Cell.user_entered_format once the setter of
\* user_entered_value has returned a
ClearFormat(a, location) ==
    LET f == CheckValid(a, location)
        default_format ==
            f.view.cell_map[location].user_entered_format.default
    IN  IF f.res # "ok" THEN f
        ELSE Result(
                [f.view EXCEPT
                    !.cell_map[location].user_entered_format.current =
                        default_format,
                    !.cell_map[location].user_entered_format.pending =
                        default_format,
                    !.cell_map[location].format_dirty = TRUE],
                f.made, "ok", f.calls)

\* CellFormat.clear on a format object the client holds: the format of
\* either layer of the Cell at location; no fetch, no test of the layer and
\* none of the window
CellFormatClear(view, made, location, layer) ==
    LET default_format == FormatOf(view.cell_map[location], layer).default
        format == [FormatOf(view.cell_map[location], layer) EXCEPT
                      !.current = default_format,
                      !.pending = default_format]
    IN  Result(
            [view EXCEPT
                !.cell_map[location] =
                    IF layer = "user_entered"
                    THEN [@ EXCEPT !.user_entered_format = format,
                                   !.format_dirty = TRUE]
                    ELSE [@ EXCEPT !.effective_format = format,
                                   !.format_dirty = TRUE]],
            made, "ok", << >>)

\* a clear that leaves the format alone
ClearValueOnly(view, made, location, net) ==
    AssignValue(view, made, location, NoneV, net)

\* Cell.clear
Clear(view, made, location, net) ==
    ClearFormat(AssignValue(view, made, location, NoneV, net), location)

\* Worksheet.refresh(entry): the new entry's grid size, then the
\* WorksheetView refresh
WorksheetRefresh(view, rows, cols) ==
    Refresh(ResetSize(view, 0, rows, 0, cols))


\* Worksheet.refresh() without an entry: the spreadsheet is fetched again;
\* the call fails, or the sheet is gone, or its entry gives the grid size
WorksheetRefreshCall(view, made, outcome) ==
    IF outcome.kind = "fail"
    THEN Result(view, made, "TransportError",
                << Call("getSpreadsheet", FALSE, << >>) >>)
    ELSE IF outcome.kind = "removed"
    THEN Result(view, made, "HyouRuntimeError",
                << Call("getSpreadsheet", TRUE, << >>) >>)
    ELSE Result(WorksheetRefresh(view, outcome.rows, outcome.cols), made,
                "ok", << Call("getSpreadsheet", TRUE, << >>) >>)

\* the keys of a cell map, row by row: the order in which commit's loop
\* over the cell map is taken to visit them
RECURSIVE InOrder(_)
InOrder(locations) ==
    IF locations = {} THEN << >>
    ELSE LET first ==
                 CHOOSE l \in locations :
                     \A m \in locations :
                         l[1] < m[1] \/ (l[1] = m[1] /\ l[2] <= m[2])
         IN  << first >> \o InOrder(locations \ {first})

\* a commit that refreshes the view before it sends the batch
CommitRefreshFirst(view, made, ok, outcome) ==
    LET order ==
            InOrder({l \in DOMAIN view.cell_map :
                        BuildUpdateRequest(view.cell_map[l]).updateCells})
        update_requests ==
            [i \in 1..Len(order) |->
                BuildUpdateRequest(view.cell_map[order[i]])]
        refreshed == WorksheetRefreshCall(view, made, outcome)
    IN  IF update_requests = << >> THEN Result(view, made, "ok", << >>)
        ELSE IF ~ok
        THEN Result(Refresh(view), made, "TransportError",
                    << Call("batchUpdate", FALSE, update_requests) >>)
        ELSE Result(refreshed.view, refreshed.made, refreshed.res,
                    << Call("batchUpdate", TRUE, update_requests) >>
                        \o refreshed.calls)

\* a commit that sends the dirty cells of the window only
CommitWindowOnly(view, made, ok, outcome) ==
    LET order ==
            InOrder({l \in DOMAIN view.cell_map :
                        /\ InWindow(view, l[1], l[2])
                        /\ BuildUpdateRequest(view.cell_map[l]).updateCells})
        update_requests ==
            [i \in 1..Len(order) |->
                BuildUpdateRequest(view.cell_map[order[i]])]
        refreshed == WorksheetRefreshCall(view, made, outcome)
    IN  IF update_requests = << >> THEN Result(view, made, "ok", << >>)
        ELSE IF ~ok
        THEN Result(view, made, "TransportError",
                    << Call("batchUpdate", FALSE, update_requests) >>)
        ELSE Result(refreshed.view, refreshed.made, refreshed.res,
                    << Call("batchUpdate", TRUE, update_requests) >>
                        \o refreshed.calls)

\* a commit that refreshes the view even when it has nothing to send
CommitAlwaysRefreshes(view, made, ok, outcome) ==
    LET order ==
            InOrder({l \in DOMAIN view.cell_map :
                        BuildUpdateRequest(view.cell_map[l]).updateCells})
        update_requests ==
            [i \in 1..Len(order) |->
                BuildUpdateRequest(view.cell_map[order[i]])]
        refreshed == WorksheetRefreshCall(view, made, outcome)
    IN  IF update_requests = << >>
        THEN Result(Refresh(view), made, "ok", << >>)
        ELSE IF ~ok
        THEN Result(view, made, "TransportError",
                    << Call("batchUpdate", FALSE, update_requests) >>)
        ELSE Result(refreshed.view, refreshed.made, refreshed.res,
                    << Call("batchUpdate", TRUE, update_requests) >>
                        \o refreshed.calls)

\* WorksheetView.commit on the Worksheet, with the outcome ok of its
\* batchUpdate call; the self.refresh() that ends it is Worksheet.refresh()
Commit(view, made, ok, outcome) ==
    LET order ==
            InOrder({l \in DOMAIN view.cell_map :
                        BuildUpdateRequest(view.cell_map[l]).updateCells})
        update_requests ==
            [i \in 1..Len(order) |->
                BuildUpdateRequest(view.cell_map[order[i]])]
        refreshed == WorksheetRefreshCall(view, made, outcome)
    IN  IF update_requests = << >> THEN Result(view, made, "ok", << >>)
        ELSE IF ~ok
        THEN Result(view, made, "TransportError",
                    << Call("batchUpdate", FALSE, update_requests) >>)
        ELSE Result(refreshed.view, refreshed.made, refreshed.res,
                    << Call("batchUpdate", TRUE, update_requests) >>
                        \o refreshed.calls)

\* Worksheet.set_size: one updateSheetProperties request, then
\* refresh(new_entry)
SetSize(view, made, rows, cols, ok) ==
    IF ~ok
    THEN Result(view, made, "TransportError",
                << Call("updateSheetProperties", FALSE, << >>) >>)
    ELSE Result(WorksheetRefresh(view, rows, cols), made, "ok",
                << Call("updateSheetProperties", TRUE, << >>) >>)

(***************************************************************************)
(* Sub-views: Worksheet.view() and the operations of a plain WorksheetView, *)
(* whose refresh() makes no network call.                                  *)
(***************************************************************************)
\* an argument of view(): None, or an integer
NoneI == [given |-> FALSE, i |-> 0]
Index(i) == [given |-> TRUE, i |-> i]

\* slice(start, stop).indices(length): the first two of the three numbers
SliceIndices(start, stop, length) ==
    << IF ~start.given THEN 0
       ELSE IF start.i < 0 THEN Max(start.i + length, 0)
       ELSE Min(start.i, length),
       IF ~stop.given THEN length
       ELSE IF stop.i < 0 THEN Max(stop.i + length, 0)
       ELSE Min(stop.i, length) >>

\* a view() whose result takes over the worksheet's fetched cells
ViewShares(worksheet, start_row, end_row, start_col, end_col) ==
    LET r == SliceIndices(start_row, end_row, worksheet.end_row)
        c == SliceIndices(start_col, end_col, worksheet.end_col)
    IN  [NewView(Min(r[1], r[2]), r[2], Min(c[1], c[2]), c[2]) EXCEPT
            !.fetched = worksheet.fetched,
            !.default_format = worksheet.default_format,
            !.cell_map = worksheet.cell_map]

\* Worksheet.view: rows and cols are the worksheet's window ends
View(worksheet, start_row, end_row, start_col, end_col) ==
    LET r == SliceIndices(start_row, end_row, worksheet.end_row)
        c == SliceIndices(start_col, end_col, worksheet.end_col)
    IN  NewView(Min(r[1], r[2]), r[2], Min(c[1], c[2]), c[2])

\* WorksheetView.commit on a sub-view, with the outcome ok of its
\* batchUpdate call; the self.refresh() that ends it is WorksheetView.refresh
ViewCommit(view, made, ok) ==
    LET order ==
            InOrder({l \in DOMAIN view.cell_map :
                        BuildUpdateRequest(view.cell_map[l]).updateCells})
        update_requests ==
            [i \in 1..Len(order) |->
                BuildUpdateRequest(view.cell_map[order[i]])]
    IN  IF update_requests = << >> THEN Result(view, made, "ok", << >>)
        ELSE IF ~ok
        THEN Result(view, made, "TransportError",
                    << Call("batchUpdate", FALSE, update_requests) >>)
        ELSE Result(Refresh(view), made, "ok",
                    << Call("batchUpdate", TRUE, update_requests) >>)

(***************************************************************************)
(* Rows (WorksheetViewRow, ViewRow).  A row object is [row, start_col,     *)
(* end_col]; the view builds one per row of its window, and a slice of a   *)
(* row is another row object.  The operations return the view after them,  *)
(* how they ended and the calls they made.                                 *)
(***************************************************************************)
NewRow(row, start_col, end_col) ==
    [row |-> row, start_col |-> start_col, end_col |-> end_col]

\* WorksheetView._view_rows as _reset_size builds it
ViewRows(view) ==
    [i \in 1..(view.end_row - view.start_row) |->
        NewRow(view.start_row + i - 1, view.start_col, view.end_col)]

\* WorksheetView.__getitem__: an index into the list of rows
ViewGetItem(view, index) ==
    LET n == Len(ViewRows(view))
    IN  IF index \in 0..(n - 1)
        THEN [res |-> "ok", row |-> ViewRows(view)[index + 1]]
        ELSE IF index \in (-n)..(-1)
        THEN [res |-> "ok", row |-> ViewRows(view)[n + index + 1]]
        ELSE [res |-> "IndexError", row |-> NewRow(0, 0, 0)]

\* WorksheetViewRow.__len__
RowLength(row) == row.end_col - row.start_col

\* WorksheetViewRow.__getitem__ with a slice
RowSlice(row, start, stop) ==
    LET s == SliceIndices(start, stop, RowLength(row))
    IN  NewRow(row.row, row.start_col + s[1],
               row.start_col + Max(s[1], s[2]))

\* the column WorksheetViewRow.__getitem__ takes an integer index for
RowColumn(row, index) ==
    IF index < 0 THEN row.end_col + index ELSE row.start_col + index

\* WorksheetViewRow.__getitem__ with an integer
RowGetItem(view, made, row, index, net) ==
    GetCell(view, made, row.row, RowColumn(row, index), net)

\* the end of a step that follows the access g: its outcome a, with the
\* calls of both
Then(g, a) == Result(a.view, a.made, a.res, g.calls \o a.calls)

\* cell._assign_value(new_value) on the Cell that self[index] returned
RowAssignItem(g, location, new_value, net) ==
    IF g.res # "ok" THEN g
    ELSE Then(g, AssignValue(g.view, g.made, location, new_value, net))

\* WorksheetViewRow.__setitem__ with an integer
RowSetItem(view, made, row, index, new_value, net) ==
    RowAssignItem(RowGetItem(view, made, row, index, net),
                  << row.row, RowColumn(row, index) >>, new_value, net)

\* the loop of a slice assignment: self[i] = value for the values in turn,
\* up to the first that raises; r is how the assignment before ended
RECURSIVE SetItems(_, _, _, _, _)
SetItems(r, row, i, values, net) ==
    IF r.res # "ok" \/ values = << >> THEN r
    ELSE SetItems(
             Then(r, RowSetItem(r.view, r.made, row, i, Head(values), net)),
             row, i + 1, Tail(values), net)

\* WorksheetViewRow.__setitem__ with a slice
RowSetSlice(view, made, row, start, stop, values, net) ==
    LET s == SliceIndices(start, stop, RowLength(row))
    IN  IF Len(values) # Max(s[1], s[2]) - s[1]
        THEN Result(view, made, "ValueError", << >>)
        ELSE SetItems(Result(view, made, "ok", << >>), row, s[1],
                      values, net)

\* WorksheetView.__setitem__ with an integer: the whole row is assigned
ViewSetItem(view, made, index, values, net) ==
    LET r == ViewGetItem(view, index)
    IN  IF r.res # "ok" THEN Result(view, made, r.res, << >>)
        ELSE RowSetSlice(view, made, r.row, NoneI, NoneI, values, net)

(***************************************************************************)
(* The value-only WorksheetView of client.py.  The view holds the window,   *)
(* _input_value_map (location to string), _cells_fetched and                *)
(* _queued_updates, a list of << row, col, string >>.  A fetch answers with *)
(* the formatted values of snapshot v, trailing empty cells and rows left   *)
(* out.  Every operation returns the view after it, how it ended, what it   *)
(* returned and the calls it made.                                          *)
(***************************************************************************)
\* WorksheetView.__init__ of client.py
NewValueView(start_row, end_row, start_col, end_col) ==
    [start_row |-> start_row, end_row |-> end_row,
     start_col |-> start_col, end_col |-> end_col,
     input_value_map |-> << >>,
     cells_fetched |-> FALSE,
     queued_updates |-> << >>]

ValueResult(view, res, ret, calls) ==
    [view |-> view, res |-> res, ret |-> ret, calls |-> calls]

\* the formatted value the server holds for a cell in snapshot v
ServerText(v, row, col) == "s" \o ToString(v) \o ToString(col)

\* response.get('values', []) of a values().get of the view's range
ValuesResponse(view, v) ==
    LET n_values(row) ==
            Max(0, Min(view.end_col, RowLen(v, row)) - view.start_col)
        n_rows ==
            Cardinality({row \in view.start_row..(view.end_row - 1) :
                            n_values(row) > 0})
    IN  [i \in 1..n_rows |->
            [j \in 1..n_values(view.start_row + i - 1) |->
                ServerText(v, view.start_row + i - 1,
                           view.start_col + j - 1)]]

\* WorksheetView._ensure_cells_fetched: the map is built anew from the
\* response
EnsureCellsFetched(view, net) ==
    IF view.cells_fetched THEN ValueResult(view, "ok", "", << >>)
    ELSE IF ~net.ok
    THEN ValueResult(view, "TransportError", "",
                     << Call("get", FALSE, << >>) >>)
    ELSE LET values == ValuesResponse(view, net.v)
             locations ==
                 {l \in Coords :
                     /\ l[1] - view.start_row + 1 \in 1..Len(values)
                     /\ l[2] - view.start_col + 1
                            \in 1..Len(values[l[1] - view.start_row + 1])}
         IN  ValueResult(
                 [view EXCEPT
                     !.input_value_map =
                         [l \in locations |->
                             values[l[1] - view.start_row + 1]
                                   [l[2] - view.start_col + 1]],
                     !.cells_fetched = TRUE],
                 "ok", "", << Call("get", TRUE, << >>) >>)

\* _input_value_map.get((row, col), '')
MapGet(view, location) ==
    IF location \in DOMAIN view.input_value_map
    THEN view.input_value_map[location]
    ELSE ""

\* the end of WorksheetViewRow.__getitem__ once f is how the fetch went
ValueLookup(f, location) ==
    IF f.res # "ok" THEN f
    ELSE ValueResult(f.view, "ok", MapGet(f.view, location), f.calls)

\* WorksheetViewRow.__getitem__ of client.py with an integer
ValueGetItem(view, row, index, net) ==
    LET col == RowColumn(row, index)
    IN  IF ~(row.start_col <= col /\ col < row.end_col)
        THEN ValueResult(view, "IndexError", "", << >>)
        ELSE IF << row.row, col >> \notin DOMAIN view.input_value_map
        THEN ValueLookup(EnsureCellsFetched(view, net), << row.row, col >>)
        ELSE ValueResult(view, "ok", MapGet(view, << row.row, col >>),
                         << >>)

\* a float that is digit * 10^exp exactly, as '%.20e' prints it
FormatFloat(digit, exp) ==
    ToString(digit) \o ".00000000000000000000e"
        \o (IF exp < 0 THEN "-" ELSE "+")
        \o (IF exp < 0 THEN "0" \o ToString(-exp) ELSE "0" \o ToString(exp))

\* the string WorksheetViewRow.__setitem__ stores for a value, or the error
\* the conversion ends with
StringForm(new_value) ==
    IF new_value.type = "NoneType" THEN [res |-> "ok", s |-> ""]
    ELSE IF new_value.type = "int"
    THEN [res |-> "ok", s |-> ToString(new_value.v)]
    ELSE IF new_value.type = "bool"
    THEN [res |-> "ok", s |-> IF new_value.v THEN "1" ELSE "0"]
    ELSE IF new_value.type = "float"
    THEN [res |-> "ok", s |-> FormatFloat(new_value.v[1], new_value.v[2])]
    ELSE IF new_value.type = "bytes"
    THEN IF new_value.ascii THEN [res |-> "ok", s |-> new_value.v]
         ELSE [res |-> "UnicodeDecodeError", s |-> ""]
    ELSE [res |-> "ok", s |-> new_value.v]

\* WorksheetViewRow.__setitem__ of client.py with an integer
ValueSetItem(view, row, index, new_value) ==
    LET col == RowColumn(row, index)
        string == StringForm(new_value)
    IN  IF ~(row.start_col <= col /\ col < row.end_col)
        THEN ValueResult(view, "IndexError", "", << >>)
        ELSE IF string.res # "ok"
        THEN ValueResult(view, string.res, "", << >>)
        ELSE ValueResult(
                 [view EXCEPT
                     !.input_value_map =
                         (<< row.row, col >> :> string.s) @@ @,
                     !.queued_updates =
                         Append(@, << row.row, col, string.s >>)],
                 "ok", "", << >>)

\* the 'data' of the request commit sends: one range of one cell per
\* queued update, in the order of the queue
ValueRanges(queued_updates) ==
    [i \in 1..Len(queued_updates) |->
        [row |-> queued_updates[i][1], col |-> queued_updates[i][2],
         values |-> << << queued_updates[i][3] >> >>]]

\* a commit that empties the queue whether or not the call succeeds
ValueCommitAlwaysEmpties(view, ok) ==
    IF view.queued_updates = << >>
    THEN ValueResult(view, "ok", "", << >>)
    ELSE ValueResult(
             [view EXCEPT !.queued_updates = << >>],
             IF ok THEN "ok" ELSE "TransportError", "",
             << Call("batchUpdate", ok,
                     ValueRanges(view.queued_updates)) >>)

\* WorksheetView.commit of client.py, with the outcome ok of its call
ValueCommit(view, ok) ==
    IF view.queued_updates = << >>
    THEN ValueResult(view, "ok", "", << >>)
    ELSE IF ~ok
    THEN ValueResult(view, "TransportError", "",
                     << Call("batchUpdate", FALSE,
                             ValueRanges(view.queued_updates)) >>)
    ELSE ValueResult(
             [view EXCEPT !.queued_updates = << >>], "ok", "",
             << Call("batchUpdate", TRUE,
                     ValueRanges(view.queued_updates)) >>)

\* WorksheetView.refresh of client.py
ValueRefresh(view) ==
    ValueResult(
        [view EXCEPT !.input_value_map = << >>,
                     !.cells_fetched = FALSE,
                     !.queued_updates = << >>],
        "ok", "", << >>)

(***************************************************************************)
(* LazyOrderedDictionary (util.py).  An entry is << key, value >>; the     *)
(* index maps a key to a 0-based position of the list.  Every operation    *)
(* returns the dictionary after it, how it ended, what it returned and the *)
(* calls it made of the enumerator and the constructor.                    *)
(***************************************************************************)
\* the None a constructor may return
NoValue == 0

DictResult(d, res, ret, calls) ==
    [dict |-> d, res |-> res, ret |-> ret, calls |-> calls]

\* LazyOrderedDictionary.__init__; constructor tells whether one is given
NewDictionary(constructor) ==
    [constructor |-> constructor, cache_list |-> << >>,
     cache_index |-> << >>, enumerated |-> FALSE]

\* a refresh that leaves the enumerated flag as it is
DictRefreshKeepsFlag(d) ==
    [d EXCEPT !.cache_list = << >>, !.cache_index = << >>]

\* a refresh that keeps the entries and asks for a new enumeration only
DictRefreshKeepsEntries(d) == [d EXCEPT !.enumerated = FALSE]

\* LazyOrderedDictionary.refresh
DictRefresh(d) ==
    [d EXCEPT !.cache_list = << >>, !.cache_index = << >>,
              !.enumerated = FALSE]

\* the first loop of _ensure_enumerated: every key of the enumerator's
\* output is indexed at the position of its last entry
IndexOf(entries) ==
    [key \in {entries[i][1] : i \in 1..Len(entries)} |->
        (CHOOSE i \in 1..Len(entries) :
            /\ entries[i][1] = key
            /\ \A j \in (i + 1)..Len(entries) : entries[j][1] # key) - 1]

\* the second loop of _ensure_enumerated: a saved entry takes the place its
\* key is indexed at, or goes to the end of the list; the index is left as
\* it is
RECURSIVE Restore(_, _, _)
Restore(cache_list, cache_index, saves) ==
    IF saves = << >> THEN cache_list
    ELSE IF Head(saves)[1] \in DOMAIN cache_index
    THEN Restore([cache_list EXCEPT
                     ![cache_index[Head(saves)[1]] + 1] = Head(saves)],
                 cache_index, Tail(saves))
    ELSE Restore(Append(cache_list, Head(saves)), cache_index, Tail(saves))

\* the outcome of a call of the enumerator: it raises, or yields entries
EnumFail == [ok |-> FALSE, entries |-> << >>]
EnumOk(entries) == [ok |-> TRUE, entries |-> entries]

\* an _ensure_enumerated that forgets the entries held before
EnsureEnumeratedDropsSaves(d, output) ==
    IF d.enumerated THEN DictResult(d, "ok", << >>, << >>)
    ELSE IF ~output.ok
    THEN DictResult(DictRefresh(d), "TransportError", << >>,
                    << "enumerator" >>)
    ELSE DictResult([d EXCEPT !.cache_list = output.entries,
                              !.cache_index = IndexOf(output.entries),
                              !.enumerated = TRUE],
                    "ok", << >>, << "enumerator" >>)

\* LazyOrderedDictionary._ensure_enumerated with the outcome output of its
\* call of the enumerator; the list and the index are cleared before the
\* call
EnsureEnumerated(d, output) ==
    IF d.enumerated THEN DictResult(d, "ok", << >>, << >>)
    ELSE IF ~output.ok
    THEN DictResult(DictRefresh(d), "TransportError", << >>,
                    << "enumerator" >>)
    ELSE DictResult([d EXCEPT !.cache_list =
                                  Restore(output.entries,
                                          IndexOf(output.entries),
                                          d.cache_list),
                              !.cache_index = IndexOf(output.entries),
                              !.enumerated = TRUE],
                    "ok", << >>, << "enumerator" >>)

\* the end of __getitem__ by key once _ensure_enumerated has returned e
Lookup(e, key) ==
    IF e.res # "ok" THEN e
    ELSE IF key \notin DOMAIN e.dict.cache_index
    THEN DictResult(e.dict, "KeyError", << >>, e.calls)
    ELSE DictResult(e.dict, "ok",
                    << e.dict.cache_list[e.dict.cache_index[key] + 1][2] >>,
                    e.calls)

\* a lookup by key that keeps what the constructor returns, None included
GetItemKeepsNone(d, key, value, output) ==
    IF key \in DOMAIN d.cache_index
    THEN DictResult(d, "ok", << d.cache_list[d.cache_index[key] + 1][2] >>,
                    << >>)
    ELSE IF d.constructor
    THEN DictResult([d EXCEPT
                        !.cache_index =
                            @ @@ (key :> Len(d.cache_list)),
                        !.cache_list = Append(@, << key, value >>)],
                    IF value = NoValue THEN "KeyError" ELSE "ok",
                    IF value = NoValue THEN << >> ELSE << value >>,
                    << "constructor" >>)
    ELSE Lookup(EnsureEnumerated(d, output), key)

\* LazyOrderedDictionary.__getitem__ with a key that is not an int; value is
\* what the constructor returns, output the outcome of the enumerator
GetItem(d, key, value, output) ==
    IF key \in DOMAIN d.cache_index
    THEN DictResult(d, "ok", << d.cache_list[d.cache_index[key] + 1][2] >>,
                    << >>)
    ELSE IF d.constructor
    THEN IF value = NoValue
         THEN DictResult(d, "KeyError", << >>, << "constructor" >>)
         ELSE DictResult([d EXCEPT
                             !.cache_index =
                                 @ @@ (key :> Len(d.cache_list)),
                             !.cache_list = Append(@, << key, value >>)],
                         "ok", << value >>, << "constructor" >>)
    ELSE Lookup(EnsureEnumerated(d, output), key)

\* the end of __getitem__ with an int once _ensure_enumerated has returned
\* e: list indexing, from the end for a negative position
At(e, position) ==
    IF e.res # "ok" THEN e
    ELSE IF position >= Len(e.dict.cache_list)
            \/ position < 0 - Len(e.dict.cache_list)
    THEN DictResult(e.dict, "IndexError", << >>, e.calls)
    ELSE DictResult(
             e.dict, "ok",
             << e.dict.cache_list[
                    IF position < 0
                    THEN Len(e.dict.cache_list) + position + 1
                    ELSE position + 1][2] >>,
             e.calls)

\* LazyOrderedDictionary.__getitem__ with an int
GetItemAt(d, position, output) ==
    At(EnsureEnumerated(d, output), position)

\* the end of __len__ once _ensure_enumerated has returned e
Length(e) ==
    IF e.res # "ok" THEN e
    ELSE DictResult(e.dict, "ok", << Len(e.dict.cache_list) >>, e.calls)

\* LazyOrderedDictionary.__len__
DictLen(d, output) == Length(EnsureEnumerated(d, output))

\* the end of keys() once _ensure_enumerated has returned e
ListedKeys(e) ==
    IF e.res # "ok" THEN e
    ELSE DictResult(e.dict, "ok",
                    [i \in 1..Len(e.dict.cache_list) |->
                        e.dict.cache_list[i][1]],
                    e.calls)

\* LazyOrderedDictionary.keys (iteration over the dictionary)
Keys(d, output) == ListedKeys(EnsureEnumerated(d, output))

(***************************************************************************)
(* Column addresses (util.py).  A string is the sequence of its letters.   *)
(***************************************************************************)
Letters ==
    << "A", "B", "C", "D", "E", "F", "G", "H", "I", "J", "K", "L", "M",
       "N", "O", "P", "Q", "R", "S", "T", "U", "V", "W", "X", "Y", "Z" >>

\* 26 ** p
RECURSIVE Power26(_)
Power26(p) == IF p = 0 THEN 1 ELSE 26 * Power26(p - 1)

\* the while loop of format_column_address: (k, p) when it ends
RECURSIVE SkipShorter(_, _)
SkipShorter(k, p) ==
    IF k >= Power26(p) THEN SkipShorter(k - Power26(p), p + 1)
    ELSE [k |-> k, p |-> p]

\* the for loop of format_column_address: p times, the letter of k % 26 is
\* put in front of s
RECURSIVE PrependLetters(_, _, _)
PrependLetters(k, p, str) ==
    IF p = 0 THEN str
    ELSE PrependLetters(k, p - 1, << Letters[(k % 26) + 1] >> \o str)

\* util.format_column_address
FormatColumnAddress(index_column) ==
    PrependLetters(SkipShorter(index_column, 1).k,
                   SkipShorter(index_column, 1).p, << >>)

(***************************************************************************)
(* State.  The client may use every Cell of the cell map: each was inside  *)
(* the window of a Fetched view when it was constructed, and there         *)
(* _get_cell hands it (and the Cell its format objects) out without        *)
(* changing anything.                                                      *)
(***************************************************************************)
VARIABLES
    ws,         \* the Worksheet: window, _fetched, _default_format, _cell_map
    made,       \* per location, the number of Cell objects constructed
    last,       \* the last operation: its name, outcome, network calls and
                \* what it found
    fetches,    \* range fetches answered since the view was last invalidated
    failures,   \* range fetches that failed since then
    steps       \* operations so far

VARIABLES
    sub,        \* the sub-view the client holds: << >>, or << view >>
    submade     \* per location, the number of Cell objects it constructed

subviews == << sub, submade >>

VARIABLES
    dict,       \* the LazyOrderedDictionary the client holds: << >>, or
                \* << dictionary >>
    dlast       \* the last operation on it: its name, outcome, what it
                \* returned, its calls and the dictionary it found

dictionary == << dict, dlast >>

VARIABLES
    calc        \* the call of a function of the library the client makes:
                \* its arguments and, once it is done, what it returned

functions == << calc >>

VARIABLES
    wv,         \* the value-only WorksheetView of client.py the client holds
    wrote,      \* per location, the string of the last assignment since the
                \* view was made or refreshed
    wlast       \* the last operation on it: its name, outcome, what it
                \* returned, its calls and the view it found

client == << wv, wrote, wlast >>

vars ==
    << ws, made, last, fetches, failures, steps, subviews, dictionary,
       functions, client >>

\* the inputs the client draws from
RowArgs == {0, 1}
ColArgs == {0, 1, 2}
WriteValues == {StrV(7), ErrorV(1)}
FormatNames == {"bold"}
FormatAssignments ==
    { << "bold", [type |-> "bool", v |-> "True"] >>,
      << "bold", [type |-> "str", v |-> "True"] >> }
Layers == {"user_entered", "effective"}
RefreshOutcomes ==
    {[kind |-> "fail", rows |-> 1, cols |-> 1],
     [kind |-> "removed", rows |-> 1, cols |-> 1]}
        \cup {[kind |-> "entry", rows |-> s[1], cols |-> s[2]] : s \in Sizes}

\* the answers that make a difference: none is looked at unless the view
\* has to fetch
NetsFor(view) == IF view.fetched THEN {NetFail} ELSE Nets

\* what the last operation found: the view's state, whether a commit had
\* just succeeded, the window, the cached locations and the dirty ones
Before(view, done) ==
    [fetched |-> view.fetched,
     committed |->
        (done.op = "commit" /\ done.res = "ok" /\ done.calls # << >>),
     end_col |-> view.end_col,
     cached |-> DOMAIN view.cell_map,
     dirty |-> {l \in DOMAIN view.cell_map : Dirty(view.cell_map[l])}]

\* no call of a function
NoCalc ==
    [fn |-> "none", done |-> FALSE, local |-> EmptyFormat,
     default |-> EmptyFormat, merged |-> EmptyFormat, index |-> 0,
     address |-> << >>]

\* the objects of the client after construction
InitObjects ==
    /\ ws = NewView(0, FullSize[1], 0, FullSize[2])
    /\ made = [location \in Coords |-> 0]
    /\ last = [op |-> "init", res |-> "ok", calls |-> << >>,
               before |-> Before(NewView(0, FullSize[1], 0, FullSize[2]),
                                 [op |-> "init", res |-> "ok",
                                  calls |-> << >>])]
    /\ fetches = 0
    /\ failures = 0
    /\ steps = 0
    /\ sub = << >>
    /\ submade = [location \in Coords |-> 0]
    /\ dict = << >>
    /\ dlast = [op |-> "init", res |-> "ok", ret |-> << >>, calls |-> << >>,
                before |-> NewDictionary(FALSE), prev |-> "init",
                dropped |-> {}]
    /\ wv = NewValueView(0, FullSize[1], 0, FullSize[2])
    /\ wrote = << >>
    /\ wlast = [op |-> "init", res |-> "ok", ret |-> "", calls |-> << >>,
                before |-> NewValueView(0, FullSize[1], 0, FullSize[2])]

Init == InitObjects /\ calc = NoCalc

Answered(calls) ==
    \E i \in 1..Len(calls) : calls[i].method = "get" /\ calls[i].ok
Failed(calls) ==
    \E i \in 1..Len(calls) : calls[i].method = "get" /\ ~calls[i].ok

\* the bookkeeping every operation on a cell shares
Access(op, r) ==
    /\ steps < MaxSteps
    /\ ws' = r.view
    /\ made' = r.made
    /\ last' = [op |-> op, res |-> r.res, calls |-> r.calls,
                before |-> Before(ws, last)]
    /\ fetches' = IF Answered(r.calls) THEN fetches + 1 ELSE fetches
    /\ failures' = IF Failed(r.calls) THEN failures + 1 ELSE failures
    /\ steps' = steps + 1
    /\ UNCHANGED << subviews, dictionary, functions, client >>

\* the bookkeeping of the operations that may invalidate the view
Invalidation(op, r) ==
    /\ steps < MaxSteps
    /\ ws' = r.view
    /\ made' = r.made
    /\ last' = [op |-> op, res |-> r.res, calls |-> r.calls,
                before |-> Before(ws, last)]
    /\ IF r.res = "ok" /\ r.calls # << >>
       THEN fetches' = 0 /\ failures' = 0
       ELSE UNCHANGED << fetches, failures >>
    /\ steps' = steps + 1
    /\ UNCHANGED << subviews, dictionary, functions, client >>

GetCellAct ==
    \E row \in RowArgs, col \in ColArgs, net \in NetsFor(ws) :
        Access("get_cell", GetCell(ws, made, row, col, net))

ReadCellAct ==
    \E location \in DOMAIN ws.cell_map, property \in CellProperties,
       net \in NetsFor(ws) :
        Access("read", ReadCell(ws, made, location, property, net))

AssignValueAct ==
    \E location \in DOMAIN ws.cell_map, new_value \in WriteValues,
       net \in NetsFor(ws) :
        Access("assign_value",
               AssignValue(ws, made, location, new_value, net))

GetFormatPropertyAct ==
    \E location \in DOMAIN ws.cell_map, layer \in Layers,
       name \in FormatNames, net \in NetsFor(ws) :
        Access("get_format_property",
               GetFormatProperty(ws, made, location, layer, name, net))

SetFormatPropertyAct ==
    \E location \in DOMAIN ws.cell_map, layer \in Layers,
       a \in FormatAssignments, net \in NetsFor(ws) :
        Access("set_format_property",
               SetFormatProperty(ws, made, location, layer, a[1], a[2], net))

CommitAct ==
    \E ok \in BOOLEAN, outcome \in RefreshOutcomes :
        Invalidation("commit", Commit(ws, made, ok, outcome))

WorksheetRefreshAct ==
    \E outcome \in RefreshOutcomes :
        Invalidation("refresh", WorksheetRefreshCall(ws, made, outcome))

SetSizeAct ==
    \E s \in Sizes, ok \in BOOLEAN :
        Invalidation("set_size", SetSize(ws, made, s[1], s[2], ok))

Next ==
    \/ GetCellAct
    \/ ReadCellAct
    \/ AssignValueAct
    \/ GetFormatPropertyAct
    \/ SetFormatPropertyAct
    \/ CommitAct
    \/ WorksheetRefreshAct
    \/ SetSizeAct

Spec == Init /\ [][Next]_vars

(***************************************************************************)
(* The client with a sub-view: it takes one from the worksheet and works   *)
(* through both.                                                           *)
(***************************************************************************)
ViewArgs ==
    { << NoneI, NoneI >>, << Index(1), NoneI >>, << NoneI, Index(-1) >>,
      << Index(2), Index(1) >> }

\* the bookkeeping of the operations on the sub-view
SubAccess(op, r) ==
    /\ steps < MaxSteps
    /\ sub' = << r.view >>
    /\ submade' = r.made
    /\ last' = [op |-> op, res |-> r.res, calls |-> r.calls,
                before |-> Before(sub[1], last)]
    /\ steps' = steps + 1
    /\ UNCHANGED << ws, made, fetches, failures, dictionary, functions,
                    client >>

ViewAct ==
    /\ steps < MaxSteps
    /\ \E cols \in ViewArgs :
           sub' = << View(ws, NoneI, NoneI, cols[1], cols[2]) >>
    /\ submade' = [location \in Coords |-> 0]
    /\ last' = [op |-> "view", res |-> "ok", calls |-> << >>,
                before |-> Before(ws, last)]
    /\ steps' = steps + 1
    /\ UNCHANGED << ws, made, fetches, failures, dictionary, functions,
                    client >>

SubGetCellAct ==
    /\ sub # << >>
    /\ \E row \in RowArgs, col \in ColArgs, net \in NetsFor(sub[1]) :
           SubAccess("sub_get_cell", GetCell(sub[1], submade, row, col, net))

SubReadCellAct ==
    /\ sub # << >>
    /\ \E location \in DOMAIN sub[1].cell_map,
          property \in CellProperties, net \in NetsFor(sub[1]) :
           SubAccess("sub_read",
                     ReadCell(sub[1], submade, location, property, net))

SubAssignValueAct ==
    /\ sub # << >>
    /\ \E location \in DOMAIN sub[1].cell_map, new_value \in WriteValues,
          net \in NetsFor(sub[1]) :
           SubAccess("sub_assign_value",
                     AssignValue(sub[1], submade, location, new_value, net))

SubSetFormatPropertyAct ==
    /\ sub # << >>
    /\ \E location \in DOMAIN sub[1].cell_map, a \in FormatAssignments,
          net \in NetsFor(sub[1]) :
           SubAccess("sub_set_format_property",
                     SetFormatProperty(sub[1], submade, location,
                                       "user_entered", a[1], a[2], net))

\* a commit of the sub-view that refreshes the worksheet as well
SubCommitRefreshesWorksheet ==
    /\ sub # << >>
    /\ steps < MaxSteps
    /\ \E ok \in BOOLEAN :
           /\ sub' = << ViewCommit(sub[1], submade, ok).view >>
           /\ last' = [op |-> "sub_commit",
                       res |-> ViewCommit(sub[1], submade, ok).res,
                       calls |-> ViewCommit(sub[1], submade, ok).calls,
                       before |-> Before(sub[1], last)]
    /\ ws' = Refresh(ws)
    /\ steps' = steps + 1
    /\ UNCHANGED << made, submade, fetches, failures, dictionary,
                    functions, client >>

SubCommitAct ==
    /\ sub # << >>
    /\ \E ok \in BOOLEAN :
           SubAccess("sub_commit", ViewCommit(sub[1], submade, ok))

SubRefreshAct ==
    /\ sub # << >>
    /\ SubAccess("sub_refresh",
                 Result(Refresh(sub[1]), submade, "ok", << >>))

NextViews ==
    \/ GetCellAct
    \/ AssignValueAct
    \/ CommitAct
    \/ SetSizeAct
    \/ ViewAct
    \/ SubGetCellAct
    \/ SubReadCellAct
    \/ SubAssignValueAct
    \/ SubSetFormatPropertyAct
    \/ SubCommitAct
    \/ SubRefreshAct

SpecViews == Init /\ [][NextViews]_vars

(***************************************************************************)
(* The client of a LazyOrderedDictionary: it constructs one, with or       *)
(* without a constructor, and looks entries up by key and by position,     *)
(* takes its length, lists its keys and refreshes it.  The enumerator      *)
(* yields k1 and k2, in either order, with fresh values on every call.     *)
(***************************************************************************)
DictKeys == {"k1", "k2", "k3"}
Positions == {-1, 0, 2}
Constructed == {NoValue, 9}
Outputs ==
    {EnumFail, EnumOk(<< >>),
     EnumOk(<< << "k1", 1 >>, << "k2", 2 >> >>),
     EnumOk(<< << "k2", 3 >>, << "k1", 4 >> >>)}

\* the keys of the entries a dictionary holds
HeldKeys(d) == {d.cache_list[i][1] : i \in 1..Len(d.cache_list)}

\* the outcomes that make a difference: the enumerator is not called once
\* the dictionary is enumerated
OutputsFor(d) == IF d.enumerated THEN {EnumFail} ELSE Outputs

\* the bookkeeping every operation on the dictionary shares
DictAccess(op, r) ==
    /\ steps < MaxSteps
    /\ dict # << >>
    /\ dict' = << r.dict >>
    /\ dlast' = [op |-> op, res |-> r.res, ret |-> r.ret, calls |-> r.calls,
                 before |-> dict[1], prev |-> dlast.op,
                 dropped |-> IF op = "refresh"
                             THEN HeldKeys(dict[1])
                             ELSE dlast.dropped]
    /\ steps' = steps + 1
    /\ UNCHANGED << ws, made, last, fetches, failures, subviews,
                    functions, client >>

NewDictionaryAct ==
    /\ steps < MaxSteps
    /\ dict = << >>
    /\ \E constructor \in BOOLEAN : dict' = << NewDictionary(constructor) >>
    /\ dlast' = [dlast EXCEPT !.op = "new"]
    /\ steps' = steps + 1
    /\ UNCHANGED << ws, made, last, fetches, failures, subviews,
                    functions, client >>

GetItemAct ==
    /\ dict # << >>
    /\ \E key \in DictKeys, value \in Constructed,
          output \in OutputsFor(dict[1]) :
           DictAccess("getitem", GetItem(dict[1], key, value, output))

GetItemAtAct ==
    /\ dict # << >>
    /\ \E position \in Positions, output \in OutputsFor(dict[1]) :
           DictAccess("getitem_at", GetItemAt(dict[1], position, output))

DictLenAct ==
    /\ dict # << >>
    /\ \E output \in OutputsFor(dict[1]) :
           DictAccess("len", DictLen(dict[1], output))

KeysAct ==
    /\ dict # << >>
    /\ \E output \in OutputsFor(dict[1]) :
           DictAccess("keys", Keys(dict[1], output))

DictRefreshAct ==
    /\ dict # << >>
    /\ DictAccess("refresh",
                  DictResult(DictRefresh(dict[1]), "ok", << >>, << >>))

NextDict ==
    \/ NewDictionaryAct
    \/ GetItemAct
    \/ GetItemAtAct
    \/ DictLenAct
    \/ KeysAct
    \/ DictRefreshAct

SpecDict == Init /\ [][NextDict]_vars

(***************************************************************************)
(* The client of one Cell: it gets the Cell at (0, 0), writes values of    *)
(* every kind and format properties to it, clears it, commits and          *)
(* refreshes.                                                              *)
(***************************************************************************)
CellValues == {IntV(2), ErrorV(1), DateV(2)}

\* the Cell the client holds, once it is there
HeldCell(view) == DOMAIN view.cell_map \cap {<< 0, 0 >>}

\* (property, value) pairs: two accepted ones and one of the wrong type
CellFormatAssignments ==
    { << "number_format_type", [type |-> "str", v |-> "TEXT"] >>,
      << "bold", [type |-> "bool", v |-> "True"] >>,
      << "bold", [type |-> "str", v |-> "True"] >> }

CellGetAct ==
    \E net \in NetsFor(ws) :
        Access("get_cell", GetCell(ws, made, 0, 0, net))

CellAssignAct ==
    \E location \in HeldCell(ws), new_value \in CellValues,
       net \in NetsFor(ws) :
        Access("assign_value",
               AssignValue(ws, made, location, new_value, net))

CellSetFormatAct ==
    \E location \in HeldCell(ws), a \in CellFormatAssignments,
       net \in NetsFor(ws) :
        Access("set_format_property",
               SetFormatProperty(ws, made, location, "user_entered",
                                 a[1], a[2], net))

ClearAct ==
    \E location \in HeldCell(ws), net \in NetsFor(ws) :
        Access("clear", Clear(ws, made, location, net))

\* the entry of the sheet at its full size
FullEntry == [kind |-> "entry", rows |-> FullSize[1], cols |-> FullSize[2]]

CellCommitAct ==
    \E ok \in BOOLEAN :
        Invalidation("commit", Commit(ws, made, ok, FullEntry))

CellRefreshAct ==
    Invalidation("refresh", WorksheetRefreshCall(ws, made, FullEntry))

NextCells ==
    \/ CellGetAct
    \/ CellAssignAct
    \/ CellSetFormatAct
    \/ ClearAct
    \/ CellCommitAct
    \/ CellRefreshAct

SpecCells == Init /\ [][NextCells]_vars

(***************************************************************************)
(* The client of one Cell's value: it gets the Cell at (0, 0), writes      *)
(* values to it, clears it, commits and refreshes.                         *)
(***************************************************************************)
WrittenValues ==
    {StrV(7), IntV(2), ErrorV(1), FloatV(1), DateV(2), DateTimeV(2, 5)}

ValueAssignAct ==
    \E location \in HeldCell(ws), new_value \in WrittenValues,
       net \in NetsFor(ws) :
        Access("assign_value",
               AssignValue(ws, made, location, new_value, net))

NextValues ==
    \/ CellGetAct
    \/ ValueAssignAct
    \/ ClearAct
    \/ CellCommitAct
    \/ CellRefreshAct

SpecValues == Init /\ [][NextValues]_vars

(***************************************************************************)
(* The client works through rows: it takes a row of the worksheet, maybe a *)
(* slice of it, and reads or assigns one index or a slice of it, or        *)
(* assigns a row of the worksheet as a whole.                              *)
(***************************************************************************)
\* the arguments tried: row indices, the bounds of a slice, the indices
\* into a row and the lists of values assigned
RowIndexArgs == {-1, 0, 1}
SliceArgs ==
    { << NoneI, NoneI >>, << Index(0), Index(1) >>, << Index(1), Index(0) >> }
IndexArgs == {-2, -1, 0, 1}
ValueLists ==
    { << >>, << StrV(7) >>, << StrV(7), StrV(7) >>,
      << StrV(7), ErrorV(1) >>, << ErrorV(1), StrV(7) >> }

\* the row objects the client can hold: a row of the view or a slice of it
HeldRows(view) ==
    {RowSlice(ViewGetItem(view, index).row, s[1], s[2]) :
        index \in {i \in RowIndexArgs : ViewGetItem(view, i).res = "ok"},
        s \in SliceArgs}

\* whether an index is one of the row's own
InRow(row, index) == index \in (-RowLength(row))..(RowLength(row) - 1)

RowGetItemAct ==
    \E row \in HeldRows(ws), index \in IndexArgs, net \in NetsFor(ws) :
        Access(IF InRow(row, index) THEN "row_getitem"
               ELSE "row_getitem_outside",
               RowGetItem(ws, made, row, index, net))

RowSetItemAct ==
    \E row \in HeldRows(ws), index \in IndexArgs, new_value \in WriteValues,
       net \in NetsFor(ws) :
        Access(IF InRow(row, index) THEN "row_setitem"
               ELSE "row_setitem_outside",
               RowSetItem(ws, made, row, index, new_value, net))

RowSetSliceAct ==
    \E s \in SliceArgs, values \in ValueLists, net \in NetsFor(ws) :
        Access("row_setslice",
               RowSetSlice(ws, made, ViewGetItem(ws, 0).row, s[1], s[2],
                           values, net))

ViewSetItemAct ==
    \E index \in RowIndexArgs, values \in ValueLists, net \in NetsFor(ws) :
        Access("view_setitem", ViewSetItem(ws, made, index, values, net))

NextRows ==
    \/ RowGetItemAct
    \/ RowSetItemAct
    \/ RowSetSliceAct
    \/ ViewSetItemAct
    \/ CellCommitAct

SpecRows == Init /\ [][NextRows]_vars

(***************************************************************************)
(* The client works on the value-only view of client.py: it reads and      *)
(* assigns cells through the rows of the view and their slices, commits    *)
(* and refreshes.                                                          *)
(***************************************************************************)
\* the values the client assigns: None, an int, a float given as
\* << digit, exponent >>, bytes that are not ASCII
PyValues ==
    {[type |-> "NoneType", v |-> 0, ascii |-> TRUE],
     [type |-> "int", v |-> 12, ascii |-> TRUE],
     [type |-> "float", v |-> << 5, -1 >>, ascii |-> TRUE],
     [type |-> "bytes", v |-> "", ascii |-> FALSE]}

ValueNets(view) == IF view.cells_fetched THEN {NetFail} ELSE Nets

\* the bookkeeping of the operations on the value-only view
ClientAccess(op, r, written) ==
    /\ steps < MaxSteps
    /\ wv' = r.view
    /\ wrote' = written
    /\ wlast' = [op |-> op, res |-> r.res, ret |-> r.ret, calls |-> r.calls,
                 before |-> wv]
    /\ steps' = steps + 1
    /\ UNCHANGED << ws, made, last, fetches, failures, subviews, dictionary,
                    functions >>

\* the strings written once the assignment r of string to location is done
Written(r, location, string) ==
    IF r.res = "ok" THEN (location :> string) @@ wrote ELSE wrote

ValueGetItemAct ==
    \E row \in HeldRows(wv), index \in IndexArgs, net \in ValueNets(wv) :
        ClientAccess("getitem", ValueGetItem(wv, row, index, net), wrote)

ValueSetItemAct ==
    \E row \in HeldRows(wv), index \in IndexArgs, new_value \in PyValues :
        ClientAccess("setitem", ValueSetItem(wv, row, index, new_value),
                     Written(ValueSetItem(wv, row, index, new_value),
                             << row.row, RowColumn(row, index) >>,
                             StringForm(new_value).s))

ValueCommitAct ==
    \E ok \in BOOLEAN :
        ClientAccess("commit", ValueCommit(wv, ok), wrote)

ValueRefreshAct ==
    ClientAccess("refresh", ValueRefresh(wv), << >>)

NextClient ==
    \/ ValueGetItemAct
    \/ ValueSetItemAct
    \/ ValueCommitAct
    \/ ValueRefreshAct

SpecClient == Init /\ [][NextClient]_vars

(***************************************************************************)
(* The client edits cells, resizes and refreshes the worksheet and reads   *)
(* cells, without ever committing.                                         *)
(***************************************************************************)
NextRefresh ==
    \/ GetCellAct
    \/ ReadCellAct
    \/ AssignValueAct
    \/ SetFormatPropertyAct
    \/ WorksheetRefreshAct
    \/ SetSizeAct

SpecRefresh == Init /\ [][NextRefresh]_vars

(***************************************************************************)
(* Format objects the client holds: the getters of a Cell hand out its two *)
(* CellFormat objects, and the client calls their setters and clear()      *)
(* whenever it likes, also after a resize has left the Cell outside the    *)
(* window.                                                                 *)
(***************************************************************************)
ClearOp(layer) ==
    IF layer = "effective" THEN "clear_effective_format"
    ELSE "clear_user_entered_format"

FormatClearAct ==
    \E location \in DOMAIN ws.cell_map, layer \in Layers :
        Access(ClearOp(layer), CellFormatClear(ws, made, location, layer))

NextFormats ==
    \/ GetCellAct
    \/ ReadCellAct
    \/ SetFormatPropertyAct
    \/ FormatClearAct
    \/ CommitAct
    \/ SetSizeAct

SpecFormats == Init /\ [][NextFormats]_vars

(***************************************************************************)
(* The client calls one function of the library on arguments of its        *)
(* choice.                                                                 *)
(***************************************************************************)
\* the largest column index tried
MaxIndex == 750

\* format dictionaries over two declared paths and one that no property
\* declares; a key may hold None
FormatsOver(paths, values) ==
    UNION {[d -> values] : d \in SUBSET paths}

MergeInputs ==
    FormatsOver({"textFormat.bold", "textFormat.italic"},
                {"1", "2", "3", NoneF})
        \X {EmptyFormat, Put(EmptyFormat, "wrapStrategy", "WRAP")}

MergeArgs ==
    {a[1] @@ a[2] : a \in MergeInputs}

FunctionCall(done) ==
    /\ calc' = done
    /\ UNCHANGED << ws, made, last, fetches, failures, steps, subviews,
                    dictionary, client >>

MergeFormatsAct ==
    /\ calc.fn = "merge"
    /\ ~calc.done
    /\ FunctionCall([calc EXCEPT
                        !.done = TRUE,
                        !.merged = MergeFormats(calc.local, calc.default)])

InitMerge ==
    /\ InitObjects
    /\ calc \in {[NoCalc EXCEPT !.fn = "merge", !.local = l, !.default = d] :
                    l \in MergeArgs, d \in MergeArgs}

SpecMerge == InitMerge /\ [][MergeFormatsAct]_vars

FormatColumnAddressAct ==
    /\ calc.fn = "format_column_address"
    /\ ~calc.done
    /\ FunctionCall([calc EXCEPT
                        !.done = TRUE,
                        !.address = FormatColumnAddress(calc.index)])

InitColumn ==
    /\ InitObjects
    /\ calc \in {[NoCalc EXCEPT !.fn = "format_column_address", !.index = i] :
                    i \in 0..MaxIndex}

SpecColumn == InitColumn /\ [][FormatColumnAddressAct]_vars

(***************************************************************************)
(* Properties.                                                             *)
(***************************************************************************)
EffectiveProperties ==
    {"effective_value", "formatted_value", "effective_format"}

DirtyLocations(view) ==
    {l \in DOMAIN view.cell_map : Dirty(view.cell_map[l])}

WindowLocations(view) ==
    {l \in DOMAIN view.cell_map :
        InWindow(view, view.cell_map[l].row, view.cell_map[l].col)}

BatchCalls(calls) ==
    {i \in 1..Len(calls) : calls[i].method = "batchUpdate"}

\* C1 (as amended): on a Fetched view, reading effective_value,
\* formatted_value or effective_format of a Cell inside the window that has
\* a dirty flag set fails with UncommittedCellPropertyError: it returns
\* nothing, makes no network call and changes nothing.
C1_DirtyCellUnreadableOnFetchedView ==
    \A location \in WindowLocations(ws) \cap DirtyLocations(ws),
       property \in EffectiveProperties, net \in Nets :
        ws.fetched =>
            LET r == ReadCell(ws, made, location, property, net)
            IN  /\ r.res = "UncommittedCellPropertyError"
                /\ r.ret = NoReturn
                /\ r.calls = << >>
                /\ r.view = ws

\* a read of a dirty Cell of the window has just failed with the
\* uncommitted-state error
C1_Witness ==
    /\ last.op = "read"
    /\ last.res = "UncommittedCellPropertyError"
    /\ last.before.fetched
    /\ WindowLocations(ws) \cap DirtyLocations(ws) # {}

\* C1 as stated: in every reachable state, Fetched or not, the three reads
\* of a dirty Cell inside the window fail with UncommittedCellPropertyError.
C1_AsStated ==
    \A location \in WindowLocations(ws) \cap DirtyLocations(ws),
       property \in EffectiveProperties, net \in Nets :
        ReadCell(ws, made, location, property, net).res
            = "UncommittedCellPropertyError"

\* C2: when the batchUpdate call of commit() fails, commit() ends with that
\* error and the view (fetched flag, default format, cell map, every Cell's
\* dirty flags, value and pending format) is as before, so that a commit()
\* retried at once sends the same fragments.
C2_FailedCommitChangesNothing ==
    \A outcome \in RefreshOutcomes :
        DirtyLocations(ws) # {} =>
            LET r == Commit(ws, made, FALSE, outcome)
            IN  /\ r.res = "TransportError"
                /\ r.view = ws
                /\ r.made = made
                /\ \A ok \in BOOLEAN, again \in RefreshOutcomes :
                       Commit(r.view, r.made, ok, again).calls[1].requests
                           = r.calls[1].requests

\* a commit has just failed in its batchUpdate call, with a dirty Cell cached
C2_Witness ==
    /\ last.op = "commit"
    /\ last.res = "TransportError"
    /\ Len(last.calls) = 1
    /\ last.calls[1].method = "batchUpdate"
    /\ ~last.calls[1].ok
    /\ last.before.dirty # {}
    /\ DirtyLocations(ws) = last.before.dirty

\* C3 (as amended): commit() on a view with a dirty cached Cell makes
\* exactly one batchUpdate call; its requests hold exactly one fragment for
\* each dirty Cell of the cell map, inside the window or not, and none for
\* a clean one.  When that call succeeds commit() goes on to refresh(); on
\* a Worksheet this fetches the spreadsheet first, and the view is
\* Unfetched afterwards when that fetch finds the sheet, which is whenever
\* commit() returns; when it fails or the sheet is gone, commit() raises
\* and the view, Fetched or not, and its dirty flags are as before.
C3_CommitSendsOneFragmentPerDirtyCell ==
    \A ok \in BOOLEAN, outcome \in RefreshOutcomes :
        DirtyLocations(ws) # {} =>
            LET r == Commit(ws, made, ok, outcome)
                requests == r.calls[1].requests
            IN  /\ BatchCalls(r.calls) = {1}
                /\ Len(requests) = Cardinality(DirtyLocations(ws))
                /\ \A l \in DirtyLocations(ws) :
                       Cardinality(
                           {i \in 1..Len(requests) :
                               /\ requests[i].rowIndex = ws.cell_map[l].row
                               /\ requests[i].columnIndex
                                      = ws.cell_map[l].col}) = 1
                /\ \A i \in 1..Len(requests) :
                       << requests[i].rowIndex, requests[i].columnIndex >>
                           \in DirtyLocations(ws)
                /\ r.res = "ok" => ~r.view.fetched
                /\ (ok /\ outcome.kind = "entry") => r.res = "ok"
                /\ (ok /\ outcome.kind # "entry") =>
                       /\ r.res \in {"TransportError", "HyouRuntimeError"}
                       /\ Len(r.calls) = 2
                       /\ r.view = ws

\* C3 as stated: whenever the batchUpdate call of commit() succeeds, the
\* view is Unfetched afterwards.
C3_AsStated ==
    \A outcome \in RefreshOutcomes :
        DirtyLocations(ws) # {} =>
            ~Commit(ws, made, TRUE, outcome).view.fetched

\* a commit has just succeeded that found a dirty Cell outside the window
\* and a clean one inside it, and sent the first one only
C3_Witness ==
    /\ last.op = "commit"
    /\ last.res = "ok"
    /\ last.calls # << >>
    /\ last.calls[1].method = "batchUpdate"
    /\ Len(last.calls[1].requests) = 1
    /\ last.calls[1].requests[1].columnIndex >= last.before.end_col
    /\ last.before.cached \ last.before.dirty # {}
    /\ ~ws.fetched

\* C4: commit() on a view without a dirty cached Cell makes no network call
\* and leaves the fetched flag, the default format and the cell map as they
\* are.
C4_CleanCommitIsANoOp ==
    \A ok \in BOOLEAN, outcome \in RefreshOutcomes :
        DirtyLocations(ws) = {} =>
            LET r == Commit(ws, made, ok, outcome)
            IN  /\ r.calls = << >>
                /\ r.res = "ok"
                /\ r.view = ws
                /\ r.made = made

\* a commit has just found a Fetched view with clean Cells only and left it
\* Fetched, without a network call
C4_Witness ==
    /\ last.op = "commit"
    /\ last.calls = << >>
    /\ last.before.fetched
    /\ last.before.cached # {}
    /\ last.before.dirty = {}
    /\ ws.fetched

StaleLocations(view) == DOMAIN view.cell_map \ WindowLocations(view)

\* the cell data a response carries for a location of the fetched window:
\* nothing for a cell the payload omits
PayloadData(response, view, location) ==
    LET i == location[1] - view.start_row + 1
        j == location[2] - view.start_col + 1
    IN  IF i \in 1..Len(response.rowData)
        THEN IF j \in 1..Len(response.rowData[i])
             THEN response.rowData[i][j]
             ELSE EmptyCellData
        ELSE EmptyCellData

PayloadLocations(response, view) ==
    {l \in Coords :
        /\ l[1] - view.start_row + 1 \in 1..Len(response.rowData)
        /\ l[2] - view.start_col + 1
               \in 1..Len(response.rowData[l[1] - view.start_row + 1])}

\* what a read of an effective property returns for a cell with that data
ExpectedRead(cell_data, default_format, property) ==
    LET format == ResetFormat(cell_data.effectiveFormat, default_format,
                              FALSE)
    IN  IF property = "effective_value"
        THEN [NoReturn EXCEPT
                 !.value = ParseExtendedValue(cell_data.effectiveValue,
                                              format)]
        ELSE IF property = "formatted_value"
        THEN [NoReturn EXCEPT !.text = cell_data.formattedValue]
        ELSE [NoReturn EXCEPT
                 !.format = MergeFormats(cell_data.effectiveFormat,
                                         default_format)]

\* C5 (as amended): on an Unfetched view, in particular after a successful
\* commit(), the access that fetches the window again leaves both dirty
\* flags of a dirty Cell false, and if the Cell is inside the window the
\* reads of effective_value, formatted_value and effective_format succeed
\* and return what the fetch response carries for the Cell's coordinates.
C5_RefetchCleansDirtyCell ==
    \A location \in DirtyLocations(ws), property \in EffectiveProperties,
       v \in Versions :
        ~ws.fetched =>
            LET r == ReadCell(ws, made, location, property, NetOk(v))
                response == Response(ws, v)
            IN  /\ ~r.view.cell_map[location].value_dirty
                /\ ~r.view.cell_map[location].format_dirty
                /\ location \in WindowLocations(ws) =>
                       /\ r.res = "ok"
                       /\ r.ret = ExpectedRead(
                                      PayloadData(response, ws, location),
                                      response.defaultFormat, property)

\* a read has just fetched the window again right after a successful commit
\* and succeeded on a view that holds a Cell of the window that was dirty
\* and no longer is
C5_Witness ==
    /\ last.op = "read"
    /\ last.res = "ok"
    /\ Answered(last.calls)
    /\ last.before.committed
    /\ \E location \in last.before.dirty \cap WindowLocations(ws) :
           /\ ~Dirty(ws.cell_map[location])
           /\ ws.cell_map[location].effective_value # NoneV

\* C5 as stated: for every dirty Cell, inside the window or not, the reads
\* of the three effective properties succeed once the window is fetched
\* again.
C5_AsStated ==
    \A location \in DirtyLocations(ws), property \in EffectiveProperties,
       v \in Versions :
        ~ws.fetched =>
            LET r == ReadCell(ws, made, location, property, NetOk(v))
            IN  /\ ~Dirty(r.view.cell_map[location])
                /\ r.res = "ok"

\* C6: with a working transport _get_cell(row, col) returns a Cell exactly
\* when (row, col) is inside the window; outside it raises IndexError before
\* any fetch: no network call, and the view (its fetched flag and cell map)
\* is as before.
C6_GetCellChecksBoundsFirst ==
    \A row \in RowArgs, col \in ColArgs, v \in Versions :
        LET r == GetCell(ws, made, row, col, NetOk(v))
        IN  /\ r.res \in {"ok", "IndexError"}
            /\ r.res = "ok" <=> InWindow(ws, row, col)
            /\ r.res = "ok" =>
                   /\ << row, col >> \in DOMAIN r.view.cell_map
                   /\ r.view.cell_map[<< row, col >>].row = row
                   /\ r.view.cell_map[<< row, col >>].col = col
            /\ r.res = "IndexError" =>
                   /\ r.calls = << >>
                   /\ r.view = ws
                   /\ r.made = made

\* a _get_cell outside the window of an Unfetched view has just raised
\* IndexError and left the view Unfetched
C6_Witness ==
    /\ last.op = "get_cell"
    /\ last.res = "IndexError"
    /\ ~last.before.fetched
    /\ last.before.cached # {}
    /\ ~ws.fetched

\* C7: one Cell object is constructed for a location and no other ever
\* takes its place: no operation removes a Cell from the cell map, a fetch
\* resets the cached Cells in place, and the Cell under key (row, col) has
\* that row and col.
C7_CellIdentityIsStable ==
    /\ \A location \in Coords : made[location] <= 1
    /\ last.before.cached \subseteq DOMAIN ws.cell_map
    /\ \A location \in DOMAIN ws.cell_map :
           /\ made[location] = 1
           /\ ws.cell_map[location].id = 1
           /\ ws.cell_map[location].row = location[1]
           /\ ws.cell_map[location].col = location[2]

\* a fetch has just reset a cached Cell that was dirty: it is clean and
\* still the first object made for its location
C7_Witness ==
    /\ Answered(last.calls)
    /\ \E location \in last.before.dirty :
           /\ ~Dirty(ws.cell_map[location])
           /\ ws.cell_map[location].id = 1
           /\ made[location] = 1

\* how an access that gets as far as the validity check of a stale Cell
\* ends: with the transport's error if it has to fetch and the fetch
\* fails, with HyouRuntimeError otherwise
StaleOutcome(f) ==
    IF f.res = "ok" THEN "HyouRuntimeError" ELSE f.res

C9_OneAnsweredFetchPerInvalidation ==
    /\ fetches <= 1
    /\ ws.fetched =>
           \A net \in Nets :
               EnsureFetched(ws, made, net) = Result(ws, made, "ok", << >>)
    /\ (~last.before.fetched /\ ws.fetched) => Answered(last.calls)
    /\ (last.before.fetched /\ ~ws.fetched) =>
           /\ last.op \in {"refresh", "commit", "set_size"}
           /\ last.res = "ok"
           /\ last.calls # << >>

\* a Cell has just been read on a Fetched view without a network call,
\* after one fetch that failed and one that was answered
C9_Witness ==
    /\ last.op = "read"
    /\ last.before.fetched
    /\ last.calls = << >>
    /\ ws.fetched
    /\ fetches = 1
    /\ failures = 1

\* C9 as stated: between two invalidations a view issues at most one range
\* fetch.
C9_AsStated == fetches + failures <= 1

\* C10 (as amended): right after _ensure_fetched on an Unfetched view, the
\* default format is the response's defaultFormat and the cell map holds
\* the Cells it held plus one for every coordinate of the payload; a cached
\* Cell the payload omits is empty, and a coordinate of the window that has
\* no Cell yet gets an empty one (value None, not dirty) from the next
\* _get_cell, without a network call.
C10_FetchFillsPayloadCellsOnly ==
    \A v \in Versions :
        ~ws.fetched =>
            LET f == EnsureFetched(ws, made, NetOk(v))
                response == Response(ws, v)
                empty == NewCell(1, 0, 0, EmptyCellData,
                                 response.defaultFormat)
                IsEmpty(cell) ==
                    [cell EXCEPT !.row = 0, !.col = 0] = empty
            IN  /\ f.res = "ok"
                /\ f.view.fetched
                /\ f.view.default_format = response.defaultFormat
                /\ DOMAIN f.view.cell_map
                       = DOMAIN ws.cell_map
                             \cup PayloadLocations(response, ws)
                /\ \A location \in DOMAIN ws.cell_map
                                     \ PayloadLocations(response, ws) :
                       IsEmpty(f.view.cell_map[location])
                /\ \A location \in Coords \ DOMAIN f.view.cell_map :
                       InWindow(ws, location[1], location[2]) =>
                           LET g == GetCell(f.view, f.made, location[1],
                                            location[2], NetFail)
                           IN  /\ g.res = "ok"
                               /\ g.calls = << >>
                               /\ IsEmpty(g.view.cell_map[location])
                               /\ g.view.cell_map[location].user_entered_value
                                      = NoneV
                               /\ ~Dirty(g.view.cell_map[location])

\* a read has just fetched the window, and a coordinate of the window that
\* the payload omitted has no Cell
C10_Witness ==
    /\ last.op = "read"
    /\ Answered(last.calls)
    /\ ws.fetched
    /\ \E location \in Coords \ DOMAIN ws.cell_map :
           InWindow(ws, location[1], location[2])

\* C10 as stated: right after _ensure_fetched the cell map holds a Cell for
\* every coordinate of the window.
C10_AsStated ==
    \A v \in Versions :
        ~ws.fetched =>
            \A location \in Coords :
                InWindow(ws, location[1], location[2]) =>
                    location
                        \in DOMAIN EnsureFetched(ws, made,
                                                 NetOk(v)).view.cell_map

\* C11: a fetch keeps every Cell of the cell map that its response omits
\* and resets it to empty: the same object, user-entered value None, both
\* dirty flags false, no pending format; and no operation removes a key from
\* the cell map.
C11_RefetchResetsOmittedCells ==
    /\ DOMAIN ws.cell_map \subseteq Coords
    /\ last.before.cached \ DOMAIN ws.cell_map = {}
    /\ \A v \in Versions :
           ~ws.fetched =>
               LET f == EnsureFetched(ws, made, NetOk(v))
                   omitted == DOMAIN ws.cell_map
                                  \ PayloadLocations(Response(ws, v), ws)
               IN  \A location \in omitted :
                       /\ location \in DOMAIN f.view.cell_map
                       /\ f.view.cell_map[location].id
                              = ws.cell_map[location].id
                       /\ f.view.cell_map[location].user_entered_value
                              = NoneV
                       /\ f.view.cell_map[location].effective_value = NoneV
                       /\ f.view.cell_map[location].formatted_value = NoText
                       /\ ~f.view.cell_map[location].value_dirty
                       /\ ~f.view.cell_map[location].format_dirty
                       /\ f.view.cell_map[location]
                              .user_entered_format.pending = EmptyFormat

\* a fetch has just reset a cached Cell of the window that was dirty and
\* that its response omitted: the Cell is still cached, empty and clean
C11_Witness ==
    /\ Answered(last.calls)
    /\ \E location \in last.before.dirty \cap WindowLocations(ws) :
           /\ ws.cell_map[location].user_entered_value = NoneV
           /\ ws.cell_map[location].id = 1
           /\ ~Dirty(ws.cell_map[location])

\* how an access ends whose range fetch fails: the transport's error, one
\* network call, the view as it was
FetchFailed(view, r) ==
    /\ r.res = "TransportError"
    /\ r.calls = << Call("get", FALSE, << >>) >>
    /\ r.view = view

\* C12: when the range fetch of a cell access fails, the access ends with
\* the transport's error after exactly one network call, the view is still
\* Unfetched with its cell map and default format as before, and the next
\* cell access fetches again.
C12_FailedFetchPropagates ==
    ~ws.fetched =>
        /\ \A location \in {l \in Coords : InWindow(ws, l[1], l[2])} :
               LET r == GetCell(ws, made, location[1], location[2], NetFail)
               IN  /\ FetchFailed(ws, r)
                   /\ r.made = made
                   /\ ~r.view.fetched
                   /\ \A net \in Nets :
                          LET n == GetCell(r.view, r.made, location[1],
                                           location[2], net)
                          IN  /\ Len(n.calls) = 1
                              /\ n.calls[1].method = "get"
                              /\ n.calls[1].ok = net.ok
        /\ \A location \in DOMAIN ws.cell_map :
               /\ \A property \in CellProperties :
                      LET r == ReadCell(ws, made, location, property, NetFail)
                      IN  FetchFailed(ws, r) /\ r.ret = NoReturn
               /\ \A new_value \in WriteValues :
                      FetchFailed(ws, AssignValue(ws, made, location,
                                                  new_value, NetFail))
               /\ \A layer \in Layers, name \in FormatNames :
                      FetchFailed(ws, GetFormatProperty(ws, made, location,
                                                        layer, name, NetFail))
               /\ \A a \in FormatAssignments :
                      CheckedFormatValue(a[1], a[2]).res = "ok" =>
                          FetchFailed(ws,
                                      SetFormatProperty(ws, made, location,
                                                        "user_entered", a[1],
                                                        a[2], NetFail))

\* a read has just failed in its range fetch, the second fetch in a row to
\* fail, and left the view Unfetched with its Cells cached
C12_Witness ==
    /\ last.op = "read"
    /\ last.res = "TransportError"
    /\ last.calls = << Call("get", FALSE, << >>) >>
    /\ ~last.before.fetched
    /\ ~ws.fetched
    /\ failures = 2
    /\ DOMAIN ws.cell_map # {}

\* the arguments view() is tried with
RowSliceArgs == {NoneI, Index(-1), Index(1)}
ColSliceArgs == {NoneI} \cup {Index(i) : i \in {-3, -1, 0, 1, 3}}

\* C13: a sub-view from Worksheet.view() is Unfetched with an empty cell
\* map, whatever the worksheet has fetched or edited; its window has
\* 0 <= start <= end <= the worksheet's size on both axes; and the first
\* _get_cell inside its window makes one range fetch, of its own window:
\* the Cells it stores are those of the response for that window, each
\* under its own row and column.
C13_SubViewStartsUnfetched ==
    LET views ==
            {View(ws, a[1], a[2], a[3], a[4]) :
                a \in RowSliceArgs \X RowSliceArgs
                          \X ColSliceArgs \X ColSliceArgs}
        none == [location \in Coords |-> 0]
    IN  \A view \in views :
            /\ ~view.fetched
            /\ view.cell_map = << >>
            /\ view.default_format = NoDefaultFormat
            /\ 0 <= view.start_row /\ view.start_row <= view.end_row
            /\ view.end_row <= ws.end_row
            /\ 0 <= view.start_col /\ view.start_col <= view.end_col
            /\ view.end_col <= ws.end_col
            /\ \A location \in Coords, v \in Versions :
                   InWindow(view, location[1], location[2]) =>
                       LET r == GetCell(view, none, location[1], location[2],
                                        NetOk(v))
                           payload ==
                               PayloadLocations(Response(view, v), view)
                       IN  /\ r.res = "ok"
                           /\ r.calls = << Call("get", TRUE, << >>) >>
                           /\ r.view.fetched
                           /\ DOMAIN r.view.cell_map
                                  = payload \cup {location}
                           /\ \A l \in payload :
                                  /\ InWindow(view, l[1], l[2])
                                  /\ l[2] < RowLen(v, l[1])
                                  /\ r.view.cell_map[l]
                                         = NewCell(1, l[1], l[2],
                                                   CellDataOf(v, l[1], l[2]),
                                                   DefaultFormatOf(v))
                           /\ \A l \in Coords \ payload :
                                  InWindow(view, l[1], l[2]) =>
                                      l[2] >= RowLen(v, l[1])

\* the first _get_cell through a sub-view that does not start at the
\* worksheet's first column has just fetched, while the worksheet is
\* Fetched and holds a dirty Cell
C13_Witness ==
    /\ last.op = "sub_get_cell"
    /\ last.res = "ok"
    /\ last.calls = << Call("get", TRUE, << >>) >>
    /\ last.before.cached = {}
    /\ ~last.before.fetched
    /\ sub # << >>
    /\ sub[1].start_col = 1
    /\ DOMAIN sub[1].cell_map = {<< 0, 1 >>}
    /\ ws.fetched
    /\ DirtyLocations(ws) # {}

WorksheetOperations == {"get_cell", "assign_value", "commit", "set_size"}
SubViewOperations ==
    {"sub_get_cell", "sub_read", "sub_assign_value",
     "sub_set_format_property", "sub_commit", "sub_refresh"}

\* C14: the worksheet and a sub-view of it are isolated: no operation on
\* the sub-view (a get, a read, a value or format write, commit(),
\* refresh()) changes the worksheet's window, fetched flag, default format,
\* cell map or Cells, and no cell access, write, commit() or set_size() on
\* the worksheet changes the sub-view's, also when both hold a Cell for the
\* same coordinate.
C14_ViewsAreIsolated ==
    [][/\ last'.op \in SubViewOperations => (ws' = ws /\ made' = made)
       /\ last'.op \in WorksheetOperations =>
              (sub' = sub /\ submade' = submade)]_vars

\* a write through the sub-view has just made its Cell dirty while the
\* worksheet, Fetched, holds a clean Cell for the same coordinate
C14_Witness ==
    /\ last.op = "sub_assign_value"
    /\ last.res = "ok"
    /\ ws.fetched
    /\ sub # << >>
    /\ \E location \in DOMAIN ws.cell_map :
           /\ location \in DirtyLocations(sub[1])
           /\ ~Dirty(ws.cell_map[location])
           /\ ws.cell_map[location].user_entered_value
                  # sub[1].cell_map[location].user_entered_value

\* C15 as stated: once set_size() has succeeded, the worksheet and the
\* sub-view taken from it before are both Unfetched.
C15_AsStated ==
    (last.op = "set_size" /\ last.res = "ok") =>
        /\ ~ws.fetched
        /\ sub # << >> => ~sub[1].fetched

\* the keys of a list of entries, in the order of the list
KeysOf(entries) == [i \in 1..Len(entries) |-> entries[i][1]]

\* C16: a lookup by key returns the value the index leads to without a call
\* of the constructor or the enumerator; for a key that is not indexed it
\* calls the constructor, if there is one, once and does not enumerate:
\* None raises KeyError and adds nothing, any other value is appended to the
\* list, indexed at that position and returned; without a constructor it
\* enumerates unless the dictionary is enumerated, looks the index up again
\* and returns the entry or raises KeyError.
C16_LookupByKey ==
    dict # << >> =>
        \A key \in DictKeys, value \in Constructed, output \in Outputs :
            LET d == dict[1]
                r == GetItem(d, key, value, output)
                e == EnsureEnumerated(d, output)
            IN  IF key \in DOMAIN d.cache_index
                THEN /\ r.res = "ok"
                     /\ r.ret = << d.cache_list[d.cache_index[key] + 1][2] >>
                     /\ r.calls = << >>
                     /\ r.dict = d
                ELSE IF d.constructor
                THEN /\ r.calls = << "constructor" >>
                     /\ value = NoValue =>
                            r.res = "KeyError" /\ r.dict = d
                     /\ value # NoValue =>
                            /\ r.res = "ok"
                            /\ r.ret = << value >>
                            /\ r.dict.cache_list
                                   = d.cache_list \o << << key, value >> >>
                            /\ DOMAIN r.dict.cache_index
                                   = DOMAIN d.cache_index \cup {key}
                            /\ r.dict.cache_index[key] = Len(d.cache_list)
                            /\ \A k \in DOMAIN d.cache_index :
                                   r.dict.cache_index[k] = d.cache_index[k]
                            /\ r.dict.enumerated = d.enumerated
                ELSE /\ r.calls = IF d.enumerated THEN << >>
                                  ELSE << "enumerator" >>
                     /\ (d.enumerated \/ output.ok) =>
                            /\ r.dict = e.dict
                            /\ r.dict.enumerated
                            /\ IF key \in DOMAIN e.dict.cache_index
                               THEN /\ r.res = "ok"
                                    /\ r.ret =
                                           << e.dict.cache_list[
                                                  e.dict.cache_index[key]
                                                      + 1][2] >>
                               ELSE r.res = "KeyError"

\* a lookup by key has just had the constructor make a second entry, which
\* went to the end of the list of a dictionary that is not enumerated
C16_Witness ==
    /\ dlast.op = "getitem"
    /\ dlast.res = "ok"
    /\ dlast.calls = << "constructor" >>
    /\ Len(dlast.before.cache_list) = 1
    /\ Len(dict[1].cache_list) = 2
    /\ dict[1].cache_list[2][2] = dlast.ret[1]
    /\ ~dict[1].enumerated

\* C17: _ensure_enumerated on a dictionary that is not enumerated calls the
\* enumerator once; the keys then listed are the enumerator's keys in the
\* enumerator's order, followed by the keys of the entries held before that
\* the enumerator did not produce, in the order they were held in; a second
\* call without a refresh() does nothing and does not call the enumerator.
C17_EnumerationOrder ==
    dict # << >> =>
        \A output \in Outputs :
            (~dict[1].enumerated /\ output.ok) =>
                LET d == dict[1]
                    e == EnsureEnumerated(d, output)
                    produced == KeysOf(output.entries)
                    held == KeysOf(d.cache_list)
                    expected ==
                        produced \o
                            SelectSeq(held,
                                      LAMBDA k :
                                          \A i \in 1..Len(produced) :
                                              produced[i] # k)
                IN  /\ e.res = "ok"
                    /\ e.calls = << "enumerator" >>
                    /\ e.dict.enumerated
                    /\ KeysOf(e.dict.cache_list) = expected
                    /\ Keys(d, output).ret = expected
                    /\ \A again \in Outputs :
                           /\ EnsureEnumerated(e.dict, again)
                                  = DictResult(e.dict, "ok", << >>, << >>)
                           /\ Keys(e.dict, again).ret = expected
                           /\ Keys(e.dict, again).calls = << >>

\* the keys have just been listed by an enumeration that found k3, made on
\* demand, in the dictionary: k3 comes after the enumerator's two keys
C17_Witness ==
    /\ dlast.op = "keys"
    /\ dlast.res = "ok"
    /\ dlast.calls = << "enumerator" >>
    /\ KeysOf(dlast.before.cache_list) = << "k3" >>
    /\ Len(dlast.ret) = 3
    /\ dlast.ret[3] = "k3"
    /\ dict[1].enumerated

\* C18 (as amended): refresh() leaves the list and the index empty and the
\* dictionary not enumerated; the next len, listing of the keys or lookup
\* by position calls the enumerator, and so does the next lookup by key of
\* a dictionary without a constructor; with a constructor the next lookup
\* by key calls the constructor only and the dictionary stays not
\* enumerated.
C18_RefreshForcesEnumeration ==
    dict # << >> =>
        LET d == DictRefresh(dict[1])
        IN  /\ d.cache_list = << >>
            /\ d.cache_index = << >>
            /\ ~d.enumerated
            /\ d.constructor = dict[1].constructor
            /\ \A output \in Outputs :
                   /\ DictLen(d, output).calls = << "enumerator" >>
                   /\ Keys(d, output).calls = << "enumerator" >>
                   /\ \A position \in Positions :
                          GetItemAt(d, position, output).calls
                              = << "enumerator" >>
                   /\ \A key \in DictKeys, value \in Constructed :
                          LET r == GetItem(d, key, value, output)
                          IN  IF d.constructor
                              THEN /\ r.calls = << "constructor" >>
                                   /\ ~r.dict.enumerated
                              ELSE r.calls = << "enumerator" >>

\* a len right after the refresh() of an enumerated dictionary has just
\* called the enumerator
C18_Witness ==
    /\ dlast.op = "len"
    /\ dlast.prev = "refresh"
    /\ dlast.dropped # {}
    /\ dlast.before.cache_list = << >>
    /\ dlast.calls = << "enumerator" >>
    /\ dlast.res = "ok"

\* C18 as stated: after refresh() the next access of any kind, a lookup by
\* key included, calls the enumerator.
C18_AsStated ==
    dict # << >> =>
        \A key \in DictKeys, value \in Constructed, output \in Outputs :
            GetItem(DictRefresh(dict[1]), key, value, output).calls
                = << "enumerator" >>

\* C19: the keys listed right after refresh() are exactly the enumerator's
\* output, in its order: the entries held before the refresh, those made on
\* demand included, are dropped.
C19_RefreshDropsConstructed ==
    dict # << >> =>
        \A output \in Outputs :
            output.ok =>
                LET r == Keys(DictRefresh(dict[1]), output)
                IN  /\ r.res = "ok"
                    /\ r.ret = KeysOf(output.entries)
                    /\ r.dict.cache_list = output.entries
                    /\ DOMAIN r.dict.cache_index
                           = {output.entries[i][1] :
                                 i \in 1..Len(output.entries)}

\* the keys have just been listed right after a refresh() that dropped k3,
\* made on demand before any enumeration: they are k1, k2
C19_Witness ==
    /\ dlast.op = "keys"
    /\ dlast.prev = "refresh"
    /\ dlast.dropped = {"k3"}
    /\ dlast.ret = << "k1", "k2" >>
    /\ KeysOf(dict[1].cache_list) = << "k1", "k2" >>

\* the values an assignment to a format property is tried with
AssignedValues ==
    {[type |-> "bool", v |-> "True"], [type |-> "str", v |-> "TEXT"],
     [type |-> "int", v |-> "12"], [type |-> "NoneType", v |-> NoneF]}

\* C20: an assignment to any property of the effective (read-only) format
\* of a Cell fails, with AttributeError and before anything else is done:
\* no network call is made and the view, with the format's current and
\* pending data and the Cell's two dirty flags, is as before.
C20_ReadOnlyFormatRejectsAssignment ==
    \A location \in DOMAIN ws.cell_map, i \in 1..Len(PropertyNames),
       new_value \in AssignedValues, net \in Nets :
        LET r == SetFormatProperty(ws, made, location, "effective",
                                   PropertyNames[i], new_value, net)
        IN  /\ r.res = "AttributeError"
            /\ r.calls = << >>
            /\ r.made = made
            /\ r.view = ws
            /\ r.view.cell_map[location].effective_format
                   = ws.cell_map[location].effective_format
            /\ r.view.cell_map[location].value_dirty
                   = ws.cell_map[location].value_dirty
            /\ r.view.cell_map[location].format_dirty
                   = ws.cell_map[location].format_dirty

\* an assignment to a property of an effective format has just failed on a
\* Fetched view and left its Cells clean
C20_Witness ==
    /\ last.op = "set_format_property"
    /\ last.res = "AttributeError"
    /\ last.calls = << >>
    /\ last.before.fetched
    /\ ws.fetched
    /\ DOMAIN ws.cell_map # {}
    /\ DirtyLocations(ws) = {}

\* the values an assignment to a format property is tried with: one of
\* every accepted type, and None
PropertyValues == AssignedValues \cup {[type |-> "tuple", v |-> "RED"]}

\* the paths of a format's data other than that of the property name
OtherPaths(format_data, name) == DOMAIN format_data \ {DataPath(name)}

\* the data of two formats agree outside the path of the property name
SameElsewhere(a, b, name) ==
    /\ OtherPaths(a, name) = OtherPaths(b, name)
    /\ \A p \in OtherPaths(a, name) : a[p] = b[p]

\* C21 (as amended): an accepted assignment to a property of the
\* user-entered format of a Cell inside the window first brings the view to
\* Fetched (a no-op on a Fetched view); it then writes the encoded value at
\* the property's path of the current and of the pending data and nowhere
\* else, a read of the property returns the value (the property's default
\* for None), the format-dirty flag is set, and the user-entered value and
\* the value-dirty flag are those the Cell has once the view is Fetched.  An
\* assignment the type validation rejects changes nothing and makes no call.
C21_FormatAssignmentWritesBothLayers ==
    \A location \in WindowLocations(ws), net \in NetsFor(ws) :
        LET f == EnsureFetchedAndValid(ws, made, location, net)
            was == f.view.cell_map[location]
        IN  /\ ws.fetched => f.view = ws
            /\ \A i \in 1..Len(PropertyNames), new_value \in PropertyValues :
                   LET name == PropertyNames[i]
                       checked == CheckedFormatValue(name, new_value)
                       r == SetFormatProperty(ws, made, location,
                                              "user_entered", name,
                                              new_value, net)
                       cell == r.view.cell_map[location]
                   IN  /\ checked.res # "ok" =>
                              /\ r.res \in {"TypeError", "ValueError"}
                              /\ r.res = checked.res
                              /\ r.view = ws
                              /\ r.calls = << >>
                       /\ (checked.res = "ok" /\ f.res # "ok") => r = f
                       /\ (checked.res = "ok" /\ f.res = "ok") =>
                              /\ r.res = "ok"
                              /\ Get(cell.user_entered_format.current,
                                     DataPath(name)) = checked.data
                              /\ Get(cell.user_entered_format.pending,
                                     DataPath(name)) = checked.data
                              /\ SameElsewhere(
                                     cell.user_entered_format.current,
                                     was.user_entered_format.current, name)
                              /\ SameElsewhere(
                                     cell.user_entered_format.pending,
                                     was.user_entered_format.pending, name)
                              /\ PropertyValue(cell.user_entered_format,
                                               name)
                                     = IF new_value.type = "NoneType"
                                       THEN DefaultValue(name)
                                       ELSE new_value.v
                              /\ cell.format_dirty
                              /\ cell.user_entered_value
                                     = was.user_entered_value
                              /\ cell.value_dirty = was.value_dirty
                              /\ cell.effective_format
                                     = was.effective_format
                              /\ \A other \in
                                        DOMAIN r.view.cell_map \ {location} :
                                     r.view.cell_map[other]
                                         = f.view.cell_map[other]

\* bold has just been set on the user-entered format of a value-dirty Cell
\* of a Fetched view: both layers hold it and both flags are set
C21_Witness ==
    /\ last.op = "set_format_property"
    /\ last.res = "ok"
    /\ last.before.fetched
    /\ << 0, 0 >> \in last.before.dirty
    /\ ws.cell_map[<< 0, 0 >>].value_dirty
    /\ ws.cell_map[<< 0, 0 >>].format_dirty
    /\ Get(ws.cell_map[<< 0, 0 >>].user_entered_format.current,
           "textFormat.bold") = "True"
    /\ Get(ws.cell_map[<< 0, 0 >>].user_entered_format.pending,
           "textFormat.bold") = "True"

\* C21 as stated: a successful assignment leaves the user-entered value and
\* the value-dirty flag the Cell had before it unchanged.
C21_AsStated ==
    \A location \in WindowLocations(ws), i \in 1..Len(PropertyNames),
       new_value \in PropertyValues, net \in NetsFor(ws) :
        LET r == SetFormatProperty(ws, made, location, "user_entered",
                                   PropertyNames[i], new_value, net)
        IN  r.res = "ok" =>
                /\ r.view.cell_map[location].format_dirty
                /\ r.view.cell_map[location].user_entered_value
                       = ws.cell_map[location].user_entered_value
                /\ r.view.cell_map[location].value_dirty
                       = ws.cell_map[location].value_dirty

\* a format dictionary holds a value, other than None, at a path
Holds(format_data, path) ==
    path \in DOMAIN format_data /\ format_data[path] # NoneF

\* C22: a call of _merge_formats(local, default) returns a dictionary that
\* has, for every declared property, the local value where local holds one
\* that is not None, else the default's where the default holds one, else
\* no entry, and nothing for a path no property declares; the call leaves
\* both arguments as they were.  local = {bold: 1} and
\* default = {bold: 2, italic: 3} give {bold: 1, italic: 3}.
C22_MergePrefersLocal ==
    [][(calc.fn = "merge" /\ calc'.done) =>
           /\ calc'.local = calc.local
           /\ calc'.default = calc.default
           /\ DOMAIN calc'.merged \subseteq Paths
           /\ \A p \in Paths :
                  IF Holds(calc.local, p)
                  THEN Get(calc'.merged, p) = calc.local[p]
                  ELSE IF Holds(calc.default, p)
                  THEN Get(calc'.merged, p) = calc.default[p]
                  ELSE p \notin DOMAIN calc'.merged
           /\ (/\ calc.local = Put(EmptyFormat, "textFormat.bold", "1")
               /\ calc.default =
                      Put(Put(EmptyFormat, "textFormat.bold", "2"),
                          "textFormat.italic", "3")) =>
                  calc'.merged =
                      Put(Put(EmptyFormat, "textFormat.bold", "1"),
                          "textFormat.italic", "3")]_vars

\* the merge of local = {bold: 1} and default = {bold: 2, italic: 3} is
\* done
C22_Witness ==
    /\ calc.fn = "merge"
    /\ calc.done
    /\ calc.local = Put(EmptyFormat, "textFormat.bold", "1")
    /\ calc.default =
           Put(Put(EmptyFormat, "textFormat.bold", "2"),
               "textFormat.italic", "3")
    /\ calc.merged =
           Put(Put(EmptyFormat, "textFormat.bold", "1"),
               "textFormat.italic", "3")

\* the bijective base-26 numeral of index + 1, with the digits A to Z
RECURSIVE Bijective(_)
Bijective(index) ==
    IF index < 26 THEN << Letters[index + 1] >>
    ELSE Bijective((index \div 26) - 1) \o << Letters[(index % 26) + 1] >>

\* C29: format_column_address returns, for every index from 0, the
\* bijective base-26 name of the column (0 -> A, 25 -> Z, 26 -> AA,
\* 27 -> AB, 701 -> ZZ, 702 -> AAA), so two indices never get one name.
C29_AsStated ==
    (calc.fn = "format_column_address" /\ calc.done) =>
        /\ calc.address = Bijective(calc.index)
        /\ \A other \in 0..MaxIndex :
               other # calc.index =>
                   FormatColumnAddress(other) # calc.address

\* what format_column_address does return: a name of the length of the
\* bijective base-26 name, made of one letter, the last letter of that name
C29_OneLetterRepeated ==
    (calc.fn = "format_column_address" /\ calc.done) =>
        /\ Len(calc.address) = Len(Bijective(calc.index))
        /\ \A i \in 1..Len(calc.address) :
               calc.address[i]
                   = Bijective(calc.index)[Len(Bijective(calc.index))]

\* the name of column 27 has been computed: BB
C29_Witness ==
    /\ calc.fn = "format_column_address"
    /\ calc.done
    /\ calc.index = 27
    /\ calc.address = << "B", "B" >>

\* the elements of a sequence
Range(seq) == {seq[i] : i \in 1..Len(seq)}

\* what C23 asks of the update of a format whose pending data hold a field
\* of numberFormat
NumberFormatCollapsed(format) ==
    LET update == GetPendingUpdate(format)
    IN  /\ Cardinality({i \in 1..Len(update.fields) :
                           update.fields[i] = "numberFormat"}) = 1
        /\ Range(update.fields) \cap NumberFormatPaths = {}
        /\ NumberFormatPaths \subseteq DOMAIN update.format
        /\ update.format["numberFormat.type"] =
               IF "numberFormat.type" \in DOMAIN format.pending
               THEN format.pending["numberFormat.type"]
               ELSE "NUMBER_FORMAT_TYPE_UNSPECIFIED"
        /\ update.format["numberFormat.pattern"] =
               IF "numberFormat.pattern" \in DOMAIN format.pending
               THEN format.pending["numberFormat.pattern"]
               ELSE ""

\* C23: when the pending data of a user-entered format hold a field of
\* numberFormat (one was assigned since the format was last reset), the
\* mask _get_pending_update returns has the path numberFormat once and no
\* path numberFormat.<field>, and the patch's numberFormat has both type
\* and pattern, the one that was not assigned being
\* NUMBER_FORMAT_TYPE_UNSPECIFIED and the empty string; this is so in every
\* Cell of the view and right after every accepted assignment of a
\* numberFormat property and every assignment of a date.
C23_NumberFormatMaskCollapses ==
    /\ \A location \in DOMAIN ws.cell_map :
           (\E p \in NumberFormatPaths :
                p \in DOMAIN ws.cell_map[location].user_entered_format
                                .pending)
               => NumberFormatCollapsed(
                      ws.cell_map[location].user_entered_format)
    /\ \A location \in WindowLocations(ws), net \in NetsFor(ws) :
           /\ \A name \in {"number_format_type", "number_format_pattern"},
                 new_value \in PropertyValues :
                  LET r == SetFormatProperty(ws, made, location,
                                             "user_entered", name,
                                             new_value, net)
                  IN  r.res = "ok" =>
                          NumberFormatCollapsed(
                              r.view.cell_map[location].user_entered_format)
           /\ LET r == AssignValue(ws, made, location, DateV(1), net)
              IN  r.res = "ok" =>
                      NumberFormatCollapsed(
                          r.view.cell_map[location].user_entered_format)

\* the type of the number format, and not its pattern, has just been set on
\* a Cell: the update has the mask path numberFormat and the pattern ''
C23_Witness ==
    /\ last.op \in {"set_format_property", "assign_value"}
    /\ last.res = "ok"
    /\ << 0, 0 >> \in DOMAIN ws.cell_map
    /\ DOMAIN ws.cell_map[<< 0, 0 >>].user_entered_format.pending
           = {"numberFormat.type"}
    /\ LET update ==
               GetPendingUpdate(ws.cell_map[<< 0, 0 >>].user_entered_format)
       IN  /\ update.fields = << "numberFormat" >>
           /\ update.format["numberFormat.pattern"] = ""

\* the declared properties whose path is outside numberFormat
LeafProperties ==
    {PropertyNames[i] : i \in 1..Len(PropertyNames)}
        \ {"number_format_type", "number_format_pattern"}

\* what C24 asks of the update of a format
LeafPathsFollowPending(format) ==
    LET update == GetPendingUpdate(format)
    IN  \A p \in Paths \ NumberFormatPaths :
            /\ p \in Range(update.fields) <=> Holds(format.pending, p)
            /\ Holds(format.pending, p) =>
                   Get(update.format, p) = format.pending[p]

\* C24: for a property outside numberFormat, the mask
\* _get_pending_update returns has the property's path if and only if the
\* pending data hold a value for it, and the patch has that value at the
\* path; right after an accepted assignment that value is the encoded
\* value assigned, and the paths of the other properties are in the mask
\* as they were before the write.
C24_MaskFollowsPendingLayer ==
    /\ \A location \in DOMAIN ws.cell_map :
           LeafPathsFollowPending(ws.cell_map[location].user_entered_format)
    /\ \A location \in WindowLocations(ws), net \in NetsFor(ws) :
           LET f == EnsureFetchedAndValid(ws, made, location, net)
               was_fields ==
                   Range(GetPendingUpdate(
                             f.view.cell_map[location].user_entered_format)
                             .fields)
           IN  \A name \in LeafProperties, new_value \in PropertyValues :
                   LET r == SetFormatProperty(ws, made, location,
                                              "user_entered", name,
                                              new_value, net)
                       update ==
                           GetPendingUpdate(
                               r.view.cell_map[location]
                                   .user_entered_format)
                   IN  r.res = "ok" =>
                           /\ DataPath(name) \in Range(update.fields)
                           /\ Get(update.format, DataPath(name))
                                  = CheckedFormatValue(name, new_value).data
                           /\ Range(update.fields) \ {DataPath(name)}
                                  = was_fields \ {DataPath(name)}

\* bold = True has just been set on a Cell that was clean: the patch has
\* textFormat.bold = True and the mask is textFormat.bold alone
C24_Witness ==
    /\ last.op = "set_format_property"
    /\ last.res = "ok"
    /\ << 0, 0 >> \notin last.before.dirty
    /\ LET update ==
               GetPendingUpdate(ws.cell_map[<< 0, 0 >>].user_entered_format)
       IN  /\ update.fields = << "textFormat.bold" >>
           /\ update.format = Put(EmptyFormat, "textFormat.bold", "True")

\* C25: _build_update_request returns None for a Cell with neither flag
\* set; for any other it returns one updateCells fragment that starts at
\* the Cell's own row and column of the worksheet's sheet, whose values have
\* userEnteredValue, and whose mask has userEnteredValue, if and only if
\* the Cell is value-dirty, and whose values have userEnteredFormat (the
\* patch of _get_pending_update), and whose mask has its paths under
\* userEnteredFormat, if and only if the Cell is format-dirty; the Cell is
\* after the call as it was before.
C25_FragmentFollowsDirtyFlags ==
    \A location \in DOMAIN ws.cell_map :
        LET cell == ws.cell_map[location]
            request == BuildUpdateRequest(cell)
            update == GetPendingUpdate(cell.user_entered_format)
            in_mask(top) ==
                {request.fields[i].path :
                    i \in {j \in 1..Len(request.fields) :
                              request.fields[j].top = top}}
        IN  /\ AfterBuildUpdateRequest(cell) = cell
            /\ ~(cell.value_dirty \/ cell.format_dirty) =>
                   request = NoFragment
            /\ (cell.value_dirty \/ cell.format_dirty) =>
                   /\ request.updateCells
                   /\ request.sheetId = SheetKey
                   /\ request.rowIndex = cell.row
                   /\ request.columnIndex = cell.col
                   /\ << request.rowIndex, request.columnIndex >> = location
                   /\ "userEnteredValue" \in request.keys
                          <=> cell.value_dirty
                   /\ (in_mask("userEnteredValue") # {}) <=> cell.value_dirty
                   /\ cell.value_dirty =>
                          /\ request.userEnteredValue =
                                 UnparseExtendedValue(
                                     cell.user_entered_value).wire
                          /\ request.userEnteredValue # NoWire
                          /\ request.fields[1] =
                                 [top |-> "userEnteredValue", path |-> ""]
                   /\ "userEnteredFormat" \in request.keys
                          <=> cell.format_dirty
                   /\ cell.format_dirty =>
                          /\ request.userEnteredFormat = update.format
                          /\ in_mask("userEnteredFormat")
                                 = Range(update.fields)
                   /\ ~cell.format_dirty =>
                          in_mask("userEnteredFormat") = {}
                   /\ Len(request.fields)
                          = (IF cell.value_dirty THEN 1 ELSE 0)
                            + (IF cell.format_dirty
                               THEN Len(update.fields) ELSE 0)

\* a Cell that is format-dirty and not value-dirty: its fragment has the
\* format and no value
C25_Witness ==
    /\ << 0, 0 >> \in DOMAIN ws.cell_map
    /\ ws.cell_map[<< 0, 0 >>].format_dirty
    /\ ~ws.cell_map[<< 0, 0 >>].value_dirty
    /\ BuildUpdateRequest(ws.cell_map[<< 0, 0 >>]).keys
           = {"userEnteredFormat"}
    /\ Len(BuildUpdateRequest(ws.cell_map[<< 0, 0 >>]).fields) = 1

\* the values of the kinds _unparse_extended_value encodes
SupportedValues ==
    {NoneV, StrV(7), BoolV(0), BoolV(1), IntV(0), IntV(2), FormulaV(3),
     DateV(2), TimeV(5), DateTimeV(2, 5)}

\* the values _unparse_extended_value raises ValueError for
RejectedValues == {ErrorV(1), FloatV(1), ObjectV(1)}

DateKinds == {"date", "time", "datetime"}
DateTypes == {"DATE", "TIME", "DATE_TIME"}

\* the number format type a read of the user-entered format returns
TypeOf(cell) == PropertyValue(cell.user_entered_format, "number_format_type")

\* C26 (as amended): an assignment of a supported value to a Cell inside
\* the window first brings the view to Fetched (a no-op on a Fetched view);
\* it then stores the value as the user-entered value and sets value-dirty.
\* For a date, a time or a datetime it also writes the number format type
\* DATE, TIME or DATE_TIME to the current and the pending data of the
\* user-entered format, and nothing else of them, and sets format-dirty;
\* for any other value the user-entered format and format-dirty are those
\* the Cell has once the view is Fetched.
C26_AssignmentStoresValue ==
    \A location \in WindowLocations(ws), net \in NetsFor(ws) :
        LET f == EnsureFetchedAndValid(ws, made, location, net)
            was == f.view.cell_map[location]
        IN  /\ ws.fetched => f.view = ws
            /\ \A new_value \in SupportedValues :
                   LET r == AssignValue(ws, made, location, new_value, net)
                       cell == r.view.cell_map[location]
                       type == UnparseExtendedValue(new_value).type
                   IN  /\ f.res # "ok" => r = f
                       /\ f.res = "ok" =>
                              /\ r.res = "ok"
                              /\ r.calls = f.calls
                              /\ cell.user_entered_value = new_value
                              /\ cell.value_dirty
                              /\ new_value.kind \in DateKinds =>
                                     /\ type \in DateTypes
                                     /\ TypeOf(cell) = type
                                     /\ Get(cell.user_entered_format.pending,
                                            "numberFormat.type") = type
                                     /\ SameElsewhere(
                                            cell.user_entered_format.current,
                                            was.user_entered_format.current,
                                            "number_format_type")
                                     /\ SameElsewhere(
                                            cell.user_entered_format.pending,
                                            was.user_entered_format.pending,
                                            "number_format_type")
                                     /\ cell.format_dirty
                              /\ new_value.kind \notin DateKinds =>
                                     /\ cell.user_entered_format
                                            = was.user_entered_format
                                     /\ cell.format_dirty = was.format_dirty
                              /\ cell.effective_format = was.effective_format
                              /\ \A other \in
                                        DOMAIN r.view.cell_map \ {location} :
                                     r.view.cell_map[other]
                                         = f.view.cell_map[other]

\* a date has just been assigned to a Cell of a Fetched view whose format
\* was clean: the Cell holds the date, its number format type is DATE in
\* both layers, and both flags are set
C26_Witness ==
    /\ last.op = "assign_value"
    /\ last.res = "ok"
    /\ last.before.fetched
    /\ << 0, 0 >> \notin last.before.dirty
    /\ ws.cell_map[<< 0, 0 >>].user_entered_value = DateV(2)
    /\ ws.cell_map[<< 0, 0 >>].value_dirty
    /\ ws.cell_map[<< 0, 0 >>].format_dirty
    /\ TypeOf(ws.cell_map[<< 0, 0 >>]) = "DATE"
    /\ Get(ws.cell_map[<< 0, 0 >>].user_entered_format.pending,
           "numberFormat.type") = "DATE"

\* C26 as stated: an assignment of a value that is no date, time or
\* datetime leaves the format layers and the format-dirty flag the Cell had
\* before it unchanged.
C26_AsStated ==
    \A location \in WindowLocations(ws), net \in NetsFor(ws),
       new_value \in SupportedValues :
        LET r == AssignValue(ws, made, location, new_value, net)
            cell == r.view.cell_map[location]
        IN  (r.res = "ok" /\ new_value.kind \notin DateKinds) =>
                /\ cell.user_entered_value = new_value
                /\ cell.value_dirty
                /\ cell.user_entered_format
                       = ws.cell_map[location].user_entered_format
                /\ cell.format_dirty = ws.cell_map[location].format_dirty

\* C27 (as amended): an assignment of an ErrorValue, or of a value of a
\* type the codec does not support, to a Cell inside the window first
\* brings the view to Fetched (a no-op on a Fetched view) and then fails
\* with ValueError; it leaves the view, and with it the Cell's value, format
\* layers and flags, as they are once the view is Fetched, so a commit
\* after it sends what it would send without the failed write, and nothing
\* for a Cell both of whose flags were clear.
C27_FailedAssignmentStoresNothing ==
    \A location \in WindowLocations(ws), net \in NetsFor(ws) :
        LET f == EnsureFetchedAndValid(ws, made, location, net)
            was == f.view.cell_map[location]
        IN  \A new_value \in RejectedValues :
                LET r == AssignValue(ws, made, location, new_value, net)
                    cell == r.view.cell_map[location]
                IN  /\ f.res # "ok" => r = f
                    /\ f.res = "ok" =>
                           /\ r.res = "ValueError"
                           /\ r.view = f.view
                           /\ r.made = f.made
                           /\ r.calls = f.calls
                           /\ cell.user_entered_value
                                  = was.user_entered_value
                           /\ cell.user_entered_format
                                  = was.user_entered_format
                           /\ cell.value_dirty = was.value_dirty
                           /\ cell.format_dirty = was.format_dirty
                           /\ BuildUpdateRequest(cell)
                                  = BuildUpdateRequest(was)
                           /\ ~Dirty(was) =>
                                  BuildUpdateRequest(cell) = NoFragment
                    /\ ws.fetched => r.view = ws

\* an ErrorValue has just been assigned to a clean Cell of a Fetched view:
\* the write failed, the Cell is clean and a commit would send nothing
C27_Witness ==
    /\ last.op = "assign_value"
    /\ last.res = "ValueError"
    /\ last.before.fetched
    /\ last.calls = << >>
    /\ << 0, 0 >> \in DOMAIN ws.cell_map
    /\ ~Dirty(ws.cell_map[<< 0, 0 >>])
    /\ Commit(ws, made, TRUE, FullEntry).calls = << >>

\* C27 as stated: a failed assignment leaves the value, the format layers
\* and both flags the Cell had before it unchanged.
C27_AsStated ==
    \A location \in WindowLocations(ws), net \in NetsFor(ws),
       new_value \in RejectedValues :
        LET r == AssignValue(ws, made, location, new_value, net)
            cell == r.view.cell_map[location]
            was == ws.cell_map[location]
        IN  r.res = "ValueError" =>
                /\ cell.user_entered_value = was.user_entered_value
                /\ cell.user_entered_format = was.user_entered_format
                /\ cell.value_dirty = was.value_dirty
                /\ cell.format_dirty = was.format_dirty

C30_ClearResetsCell ==
    \A location \in WindowLocations(ws), net \in NetsFor(ws) :
        LET f == EnsureFetchedAndValid(ws, made, location, net)
            r == Clear(ws, made, location, net)
            cell == r.view.cell_map[location]
            sent == Commit(r.view, r.made, TRUE, FullEntry)
        IN  /\ r.res = f.res
            /\ r.res = "ok" =>
                   /\ cell.user_entered_value = NoneV
                   /\ cell.user_entered_format.current
                          = r.view.default_format
                   /\ cell.user_entered_format.pending
                          = r.view.default_format
                   /\ cell.value_dirty
                   /\ cell.format_dirty
                   /\ BuildUpdateRequest(cell).updateCells
                   /\ BuildUpdateRequest(cell).keys
                          = {"userEnteredValue", "userEnteredFormat"}
                   /\ sent.calls # << >>
                   /\ sent.calls[1].method = "batchUpdate"
                   /\ \E i \in 1..Len(sent.calls[1].requests) :
                          sent.calls[1].requests[i]
                              = BuildUpdateRequest(cell)

\* a Cell that held a date has just been cleared: its value is None, its
\* format data are the default format of the view, and both flags are set
C30_Witness ==
    /\ last.op = "clear"
    /\ last.res = "ok"
    /\ << 0, 0 >> \in last.before.dirty
    /\ ws.cell_map[<< 0, 0 >>].user_entered_value = NoneV
    /\ ws.cell_map[<< 0, 0 >>].user_entered_format.current
           = ws.default_format
    /\ ws.cell_map[<< 0, 0 >>].value_dirty
    /\ ws.cell_map[<< 0, 0 >>].format_dirty

\* C31 as stated: right after a commit() that sent a batch and succeeded, a
\* second commit() makes no network call, whatever the network would
\* answer.
C31_AsStated ==
    (last.op = "commit" /\ last.res = "ok" /\ last.calls # << >>) =>
        \A ok \in BOOLEAN, outcome \in RefreshOutcomes :
            Commit(ws, made, ok, outcome).calls = << >>

\* a commit() has just sent a batch and succeeded, and the commit() that
\* follows it sends the same batch again
C31_Witness ==
    /\ last.op = "commit"
    /\ last.res = "ok"
    /\ last.calls # << >>
    /\ last.calls[1].method = "batchUpdate"
    /\ Commit(ws, made, TRUE, FullEntry).calls # << >>
    /\ Commit(ws, made, TRUE, FullEntry).calls[1] = last.calls[1]

\* C32 as stated: in every state of a LazyOrderedDictionary each key occurs
\* at most once in the list, and the index maps key k to position i exactly
\* when the entry at position i of the list has key k.
C32_AsStated ==
    dict # << >> =>
        LET d == dict[1]
        IN  /\ \A i, j \in 1..Len(d.cache_list) :
                   d.cache_list[i][1] = d.cache_list[j][1] => i = j
            /\ \A k \in DictKeys, i \in 1..Len(d.cache_list) :
                   (k \in DOMAIN d.cache_index /\ d.cache_index[k] = i - 1)
                       <=> d.cache_list[i][1] = k

\* an enumeration has just put the entry of k3, made on demand before it
\* and not produced by the enumerator, back at the end of the list: the
\* list holds k3 and the index does not
C32_Witness ==
    /\ dict # << >>
    /\ dlast.op \in {"len", "keys", "getitem_at"}
    /\ dlast.calls = << "enumerator" >>
    /\ KeysOf(dlast.before.cache_list) = << "k3" >>
    /\ dict[1].enumerated
    /\ KeysOf(dict[1].cache_list) = << "k1", "k2", "k3" >>
    /\ DOMAIN dict[1].cache_index = {"k1", "k2"}

\* the operations that may come between two lookups by key without a
\* refresh(): none, a len or an iteration, a lookup by position
Between(d, position, output) ==
    {d, DictLen(d, output).dict, Keys(d, output).dict,
     GetItemAt(d, position, output).dict}

\* C33 as stated: once a lookup of key k has returned v, a later lookup of
\* k with no refresh() in between returns v and does not call the
\* constructor, also when a len, an iteration or a lookup by position came
\* between the two and whether or not the enumerator produces k.  The
\* enumerations that come between are taken to succeed.
C33_AsStated ==
    dict # << >> =>
        \A key \in DictKeys, value \in Constructed, output \in Outputs :
            LET first == GetItem(dict[1], key, value, output)
            IN  first.res = "ok" =>
                    \A position \in Positions,
                       between \in {o \in Outputs : o.ok} :
                        \A d \in Between(first.dict, position, between) :
                            \A again \in Constructed, later \in Outputs :
                                LET second == GetItem(d, key, again, later)
                                IN  /\ second.res = "ok"
                                    /\ second.ret = first.ret
                                    /\ second.calls = << >>

\* a lookup by key has just called the constructor for a key whose entry,
\* made on demand by an earlier lookup, the list held all along: the list
\* now holds two entries of that key
C33_Witness ==
    /\ dict # << >>
    /\ dlast.op = "getitem"
    /\ dlast.res = "ok"
    /\ dlast.calls = << "constructor" >>
    /\ dlast.dropped = {}
    /\ Len(dict[1].cache_list) = Len(dlast.before.cache_list) + 1
    /\ dict[1].cache_list[Len(dict[1].cache_list)][1]
           \in HeldKeys(dlast.before)

\* C39: in every reachable state the pending data of the user-entered
\* format of a Cell whose format-dirty flag is false are empty: an
\* assignment to a property and clear() write them and set the flag, and
\* the reset of a fetch clears the flag and empties them.
C39_CleanFormatHasNoPending ==
    \A location \in DOMAIN ws.cell_map :
        ~ws.cell_map[location].format_dirty =>
            ws.cell_map[location].user_entered_format.pending = EmptyFormat

\* a fetch has just reset a Cell that was dirty: it is no longer
\* format-dirty and its pending data are empty
C39_Witness ==
    /\ ~last.before.fetched
    /\ << 0, 0 >> \in last.before.dirty
    /\ Answered(last.calls)
    /\ last.op \in {"get_cell", "set_format_property"}
    /\ last.res = "ok"
    /\ ws.fetched
    /\ ~ws.cell_map[<< 0, 0 >>].format_dirty
    /\ ~ws.cell_map[<< 0, 0 >>].value_dirty
    /\ ws.cell_map[<< 0, 0 >>].user_entered_format.pending = EmptyFormat

\* the views a refresh() leaves: the plain view's, and the worksheet's for
\* every grid size its entry can give
RefreshedViews ==
    {Refresh(ws)}
        \cup {WorksheetRefreshCall(ws, made, outcome).view :
                 outcome \in {o \in RefreshOutcomes : o.kind = "entry"}}

\* the value _reset_data stores for the cell data a response carries
FetchedValue(response, view, location) ==
    LET cell_data == PayloadData(response, view, location)
    IN  IF InWindow(view, location[1], location[2])
        THEN ParseExtendedValue(
                 cell_data.userEnteredValue,
                 ResetFormat(cell_data.userEnteredFormat,
                             response.defaultFormat, TRUE))
        ELSE NoneV

\* r is the result of an access that fetched view again and got response:
\* no cached cell holds an edit and a commit has nothing to send
EditsDiscarded(view, r, response) ==
    /\ Answered(r.calls)
    /\ \A location \in DOMAIN r.view.cell_map :
           LET cell == r.view.cell_map[location]
           IN  /\ ~cell.value_dirty
               /\ ~cell.format_dirty
               /\ cell.user_entered_format.pending = EmptyFormat
               /\ cell.user_entered_value
                      = FetchedValue(response, view, location)
    /\ \A ok \in BOOLEAN, outcome \in RefreshOutcomes :
           Commit(r.view, r.made, ok, outcome).calls = << >>

\* C38: refresh() discards the uncommitted edits: after a refresh() of a
\* view that holds dirty cells, any access to a cell (a lookup in the
\* window, a read of a property of a held Cell) fetches the range again, and
\* once the fetch is answered every cached cell has both dirty flags false,
\* no pending format and the user-entered value of the response (None for a
\* cell the response omits), so that a commit() after it makes no network
\* call.
C38_RefreshDiscardsEdits ==
    DirtyLocations(ws) # {} =>
        \A view \in RefreshedViews, v \in Versions :
            LET response == Response(view, v)
            IN  /\ \A location \in Coords :
                       InWindow(view, location[1], location[2]) =>
                           LET r == GetCell(view, made, location[1],
                                            location[2], NetOk(v))
                           IN  EditsDiscarded(view, r, response)
                /\ \A location \in DOMAIN view.cell_map :
                       LET f == EnsureFetchedAndValid(view, made, location,
                                                      NetOk(v))
                       IN  /\ EditsDiscarded(view, f, response)
                           /\ \A property \in CellProperties :
                                  /\ ReadCell(view, made, location,
                                              property, NetOk(v)).view
                                         = f.view
                                  /\ Getter(f, location, property).view
                                         = f.view

\* a read or a lookup has just fetched the range again on a view that a
\* refresh() had left with dirty cells (no commit came before it), and no
\* cached cell is dirty any more
C38_Witness ==
    /\ last.op \in {"read", "get_cell"}
    /\ ~last.before.fetched
    /\ ~last.before.committed
    /\ last.before.dirty # {}
    /\ Answered(last.calls)
    /\ ws.fetched
    /\ DirtyLocations(ws) = {}
    /\ DOMAIN ws.cell_map # {}

\* C36 as stated: through a held CellFormat object neither the effective
\* layer nor a Cell outside the window can be changed: every property
\* assignment on such an object fails, and clear() on it fails or leaves the
\* Cell's format data and dirty flags as they were.
C36_AsStated ==
    \A location \in DOMAIN ws.cell_map, layer \in Layers :
        (layer = "effective" \/ location \in StaleLocations(ws)) =>
            /\ \A a \in FormatAssignments, net \in NetsFor(ws) :
                   SetFormatProperty(ws, made, location, layer, a[1], a[2],
                                     net).res # "ok"
            /\ LET r == CellFormatClear(ws, made, location, layer)
               IN  \/ r.res # "ok"
                   \/ r.view.cell_map[location] = ws.cell_map[location]

\* clear() on a held effective_format has just succeeded: a Cell that was
\* clean is format-dirty and its effective layer has a pending format
C36_Witness ==
    /\ last.op = "clear_effective_format"
    /\ last.res = "ok"
    /\ \E location \in DOMAIN ws.cell_map \ last.before.dirty :
           /\ ws.cell_map[location].format_dirty
           /\ ws.cell_map[location].effective_format.pending # EmptyFormat
           /\ ~ws.cell_map[location].effective_format.user_entered

\* C35 as stated: on a row or a slice of a row that covers the n columns
\* from c0 on, an index i of 0..n-1 is column c0 + i, an index of -n..-1 is
\* column c0 + n + i, and every other index raises IndexError, in a read and
\* in an assignment.
C35_AsStated ==
    \A row \in HeldRows(ws), index \in IndexArgs, net \in NetsFor(ws) :
        LET n == RowLength(row)
            c0 == row.start_col
            g == RowGetItem(ws, made, row, index, net)
        IN  /\ (index \in 0..(n - 1) /\ g.res = "ok") =>
                   /\ RowColumn(row, index) = c0 + index
                   /\ << row.row, c0 + index >> \in DOMAIN g.view.cell_map
            /\ (index \in (-n)..(-1) /\ g.res = "ok") =>
                   /\ RowColumn(row, index) = c0 + n + index
                   /\ << row.row, c0 + n + index >>
                          \in DOMAIN g.view.cell_map
            /\ ~InRow(row, index) =>
                   /\ g.res = "IndexError"
                   /\ \A new_value \in WriteValues :
                          RowSetItem(ws, made, row, index, new_value,
                                     net).res = "IndexError"

\* a read of an index that is not one of the row slice's own has just
\* returned a Cell of the view
C35_Witness ==
    /\ last.op = "row_getitem_outside"
    /\ last.res = "ok"
    /\ ws.fetched
    /\ DOMAIN ws.cell_map # {}

\* C37 as stated, on a Fetched view: a slice assignment on a row that
\* raises, for the number of values or for a value that cannot be encoded,
\* has changed no Cell of the view, and a Cell it made is empty and clean.
C37_AsStated ==
    ws.fetched =>
        \A s \in SliceArgs, values \in ValueLists :
            LET r == RowSetSlice(ws, made, ViewGetItem(ws, 0).row, s[1],
                                 s[2], values, NetFail)
            IN  r.res # "ok" =>
                    /\ \A location \in DOMAIN ws.cell_map :
                           r.view.cell_map[location] = ws.cell_map[location]
                    /\ \A location \in
                              DOMAIN r.view.cell_map \ DOMAIN ws.cell_map :
                           /\ ~Dirty(r.view.cell_map[location])
                           /\ r.view.cell_map[location].user_entered_value
                                  = NoneV

\* a slice assignment on a Fetched view has just raised ValueError for a
\* value it could not encode, and a Cell that was clean holds the value
\* before it and is dirty
C37_Witness ==
    /\ last.op = "row_setslice"
    /\ last.res = "ValueError"
    /\ last.before.fetched
    /\ \E location \in DirtyLocations(ws) \ last.before.dirty :
           /\ ws.cell_map[location].user_entered_value = StrV(7)
           /\ ws.cell_map[location].value_dirty

\* C34 as stated: in the value-only view, once a cell has been assigned, a
\* read of that cell returns the string stored for the last value assigned
\* to it, in every state up to the next refresh(), whatever was read in
\* between and whether or not the view had fetched before the assignment.
C34_AsStated ==
    \A location \in DOMAIN wrote, net \in ValueNets(wv) :
        LET row == ViewGetItem(wv, location[1] - wv.start_row).row
            g == ValueGetItem(wv, row, location[2] - wv.start_col, net)
        IN  g.res = "ok" /\ g.ret = wrote[location]

\* a read of another cell has just fetched the range on a view that held an
\* assigned cell: the string assigned is still queued, and the map no
\* longer holds it
C34_Witness ==
    /\ wlast.op = "getitem"
    /\ wlast.res = "ok"
    /\ ~wlast.before.cells_fetched
    /\ wlast.calls = << Call("get", TRUE, << >>) >>
    /\ \E location \in DOMAIN wrote :
           /\ location \in DOMAIN wlast.before.input_value_map
           /\ wlast.before.input_value_map[location] = wrote[location]
           /\ MapGet(wv, location) # wrote[location]
           /\ \E i \in 1..Len(wv.queued_updates) :
                  wv.queued_updates[i]
                      = << location[1], location[2], wrote[location] >>

\* the entries of the queue for a location
QueuedFor(view, location) ==
    {i \in 1..Len(view.queued_updates) :
        << view.queued_updates[i][1], view.queued_updates[i][2] >>
            = location}

\* C40: in the value-only view of client.py an assignment to a cell appends
\* one entry to the update queue and makes no call; commit() with an empty
\* queue makes no call; commit() with a non-empty queue makes one
\* batchUpdate call that carries every queued update in the order of the
\* queue, which is the order of the writes (the last entry queued for a cell
\* is its last write), and empties the queue if the call succeeds and leaves
\* the view as it was if it fails; refresh() empties the queue and makes no
\* call; a read leaves the queue alone.
C40_QueueDiscipline ==
    /\ \A row \in HeldRows(wv), index \in IndexArgs, new_value \in PyValues :
           LET r == ValueSetItem(wv, row, index, new_value)
           IN  /\ r.calls = << >>
               /\ IF r.res = "ok"
                  THEN r.view.queued_updates
                           = Append(wv.queued_updates,
                                    << row.row, RowColumn(row, index),
                                       StringForm(new_value).s >>)
                  ELSE r.view = wv
    /\ \A ok \in BOOLEAN :
           LET c == ValueCommit(wv, ok)
               n == Len(wv.queued_updates)
           IN  IF n = 0 THEN c.calls = << >> /\ c.view = wv /\ c.res = "ok"
               ELSE /\ Len(c.calls) = 1
                    /\ c.calls[1].method = "batchUpdate"
                    /\ c.calls[1].ok = ok
                    /\ Len(c.calls[1].requests) = n
                    /\ \A i \in 1..n :
                           /\ c.calls[1].requests[i].row
                                  = wv.queued_updates[i][1]
                           /\ c.calls[1].requests[i].col
                                  = wv.queued_updates[i][2]
                           /\ c.calls[1].requests[i].values
                                  = << << wv.queued_updates[i][3] >> >>
                    /\ ok => (c.res = "ok" /\ c.view.queued_updates = << >>)
                    /\ ~ok => (c.res # "ok" /\ c.view = wv)
    /\ ValueRefresh(wv).calls = << >>
    /\ ValueRefresh(wv).view.queued_updates = << >>
    /\ \A row \in HeldRows(wv), index \in IndexArgs, net \in ValueNets(wv) :
           ValueGetItem(wv, row, index, net).view.queued_updates
               = wv.queued_updates
    /\ \A location \in DOMAIN wrote :
           \A i \in QueuedFor(wv, location) :
               (\A j \in QueuedFor(wv, location) : j <= i) =>
                   wv.queued_updates[i][3] = wrote[location]

\* a commit has just sent, in one call that succeeded, two writes to one
\* cell in the order they were made, and the queue is empty
C40_Witness ==
    /\ wlast.op = "commit"
    /\ wlast.res = "ok"
    /\ Len(wlast.before.queued_updates) >= 2
    /\ wv.queued_updates = << >>
    /\ Len(wlast.calls) = 1
    /\ wlast.calls[1].requests[1].col = wlast.calls[1].requests[2].col
    /\ wlast.calls[1].requests[1].values
           # wlast.calls[1].requests[2].values
    /\ wlast.calls[1].requests[2].values
           = << << wrote[<< wlast.calls[1].requests[2].row,
                           wlast.calls[1].requests[2].col >>] >> >>

====
